---------------------------- MODULE Spec2Model ----------------------------
(* Keyword-to-content pipeline (src/app.py): the process-wide keyword       *)
(* collection `current_data`, the Flask handlers that read and mutate it,   *)
(* the hierarchy builder of download_json / generate_content, and the       *)
(* identifier validators.                                                   *)
(*                                                                          *)
(* Python dicts are objects: current_data is a list of REFERENCES to        *)
(* keyword dicts, and the handlers write 'tag' and 'order' into those       *)
(* dicts in place.  The model keeps a heap (reference -> dict) so that a    *)
(* dict that stands at two list positions is one dict.                      *)
EXTENDS Integers, Sequences, FiniteSets, TLC

VARIABLES heap, current_data, request_identifier, response, calls, prompt,
          written, response_text, cleaned_result, given_document, validated_document,
          given_fragments, extracted_schema, in_flight

\* heap                the keyword dicts, by reference
\* current_data        the global: None, or a list of references
\* request_identifier  the 'identifier' dict of the request in hand, as sent
\* response            the response to the latest request
\* calls               the calls of the generation service in that request
\* prompt              the body of the structured_data its prompts were made of
\* written             the document that request wrote to a file, if any
\* response_text       the text of a service answer given to clean_json_response
\* cleaned_result      what clean_json_response made of it, once it has run
\* given_document      a document given to validate_and_fix_json
\* validated_document  what validate_and_fix_json returned for it, once run
\* given_fragments     a value given to generate_faq_schema
\* extracted_schema    what generate_faq_schema returned for it, once run
\* in_flight           the requests that run side by side, each with its locals
vars == <<heap, current_data, request_identifier, response, calls, prompt, written,
          response_text, cleaned_result, given_document, validated_document,
          given_fragments, extracted_schema, in_flight>>

----------------------------------------------------------------------------
(* Bounds of the model *)

\* most keyword rows in an upload / records in a replace-collection request
MaxKw == 2
\* search volumes range over 0..MaxVolume
MaxVolume == 1
\* longest id list of a reorder request
MaxOrderLen == 2
\* most entries of one update_tags request
MaxUpdates == 1

\* most dicts in a flat list given to the hierarchy builder
MaxFlat == 3
\* largest id and largest order in such a list
MaxFlatId == 1
MaxFlatOrder == 1
\* largest parent_id in such a list
MaxFlatParent == 0
\* longest handle string drawn from the alphabet
MaxHandleLen == 4
\* longest tags string drawn from the alphabet
MaxTagsLen == 5
\* most pieces (TextTokens) of an arbitrary answer text of the service
MaxTextTokens == 4
\* longest string value, key or list element of a document to validate
MaxStringLen == 3
\* the pieces of a fragment generate_faq_schema is given
MaxFragmentTokens == 6
\* most /remove_keyword and /reorder requests that run side by side
MaxInFlight == 2

----------------------------------------------------------------------------
(* Values *)

\* Python None where an integer is expected (dict.get('parent_id'), get('id'))
NoneVal == -1

\* the 'tag' values the front end sends; '' is untagged
Tags == {"", "H1", "H2", "H3"}

Volumes == 0..MaxVolume

\* ids a request may name: the ids upload hands out, and one it never does
Ids == 0..MaxKw

Range(s) == {s[i] : i \in DOMAIN s}

\* sequences over S of length lo..hi
SeqsOf(S, lo, hi) == UNION {[1..n -> S] : n \in lo..hi}

\* the keyword dict upload_file appends for the row at 0-based position i
NewKeyword(i, vol) ==
    [id |-> i, keyword |-> i, volume |-> vol, tag |-> "", order |-> i,
     parent_id |-> NoneVal]

\* current_data: None, or a list of references into the heap
NoData == [isNone |-> TRUE, list |-> <<>>]
Loaded(l) == [isNone |-> FALSE, list |-> l]

\* what a handler returns: the status, the 'error' or the 'message' of the
\* JSON body, and its 'data' list
NoResponse == [status |-> 0, error |-> "", message |-> "", data |-> <<>>]

Ok(msg, data) == [status |-> 200, error |-> "", message |-> msg, data |-> data]
Err(code, msg) == [status |-> code, error |-> msg, message |-> "", data |-> <<>>]

\* the dicts a list of references serialises to (jsonify at return time)
Deref(h, l) == [i \in DOMAIN l |-> h[l[i]]]

\* dicts no list refers to any more are gone
Collect(h, l) == [r \in Range(l) |-> h[r]]

----------------------------------------------------------------------------
(* Strings: a Python str is the sequence of its characters *)

Lowers == <<"a","b","c","d","e","f","g","h","i","j","k","l","m",
            "n","o","p","q","r","s","t","u","v","w","x","y","z">>
Uppers == <<"A","B","C","D","E","F","G","H","I","J","K","L","M",
            "N","O","P","Q","R","S","T","U","V","W","X","Y","Z">>
LowerChars == Range(Lowers)
UpperChars == Range(Uppers)
DigitChars == {"0","1","2","3","4","5","6","7","8","9"}
\* what str.strip() strips and the regex class \s matches
SpaceChars == {" ", "\t", "\n", "\r"}

\* str.lower(), one character
LowerChar(c) ==
    IF c \in UpperChars
    THEN Lowers[CHOOSE i \in DOMAIN Uppers : Uppers[i] = c]
    ELSE c

\* str.lower()
Lower(s) == [i \in DOMAIN s |-> LowerChar(s[i])]

RECURSIVE LStrip(_)
LStrip(s) == IF s # <<>> /\ Head(s) \in SpaceChars THEN LStrip(Tail(s)) ELSE s

RECURSIVE RStrip(_)
RStrip(s) ==
    IF s # <<>> /\ s[Len(s)] \in SpaceChars
    THEN RStrip(SubSeq(s, 1, Len(s) - 1))
    ELSE s

\* str.strip()
Strip(s) == RStrip(LStrip(s))

\* re.sub(run+, rep, s) for a character class `run` and a replacement of one
\* character: every maximal run of class characters becomes rep
RECURSIVE SubRuns(_, _, _, _)
SubRuns(s, run, rep, i) ==
    IF i > Len(s) THEN <<>>
    ELSE IF s[i] \in run
         THEN IF i > 1 /\ s[i - 1] \in run
              THEN SubRuns(s, run, rep, i + 1)
              ELSE <<rep>> \o SubRuns(s, run, rep, i + 1)
         ELSE <<s[i]>> \o SubRuns(s, run, rep, i + 1)

\* re.match(r'^[class]+$', s): one or more class characters up to the end of
\* the string, where $ also matches just before a final newline
MatchClassPlus(s, class) ==
    \E n \in 1..Len(s) :
        /\ \A i \in 1..n : s[i] \in class
        /\ \/ n = Len(s)
           \/ n = Len(s) - 1 /\ s[Len(s)] = "\n"

\* sub in s
Contains(s, sub) ==
    \E i \in 1..(Len(s) - Len(sub) + 1) : SubSeq(s, i, i + Len(sub) - 1) = sub

\* a value a request may carry where a string is expected: a str, or a JSON
\* value of another type (a number, null, a list)
StrVal(s) == [isStr |-> TRUE, s |-> s]
NonStr == [isStr |-> FALSE, s |-> <<>>]

\* the (is_valid, result) pairs the validators return
Valid(s) == [ok |-> TRUE, value |-> s, error |-> ""]
Invalid(msg) == [ok |-> FALSE, value |-> <<>>, error |-> msg]

----------------------------------------------------------------------------
(* Identifier validation *)

HandleChars == LowerChars \cup DigitChars \cup {"-"}

\* validate_handle without its last test
validate_handle_no_run_test(raw) ==
    IF ~raw.isStr \/ raw.s = <<>>
    THEN Invalid("Handle must be a non-empty string")
    ELSE LET stripped == Lower(Strip(raw.s))
             handle == SubRuns(stripped, SpaceChars, "-", 1)
         IN  IF stripped = <<>>
             THEN Invalid("Handle cannot be empty")
             ELSE IF ~MatchClassPlus(handle, HandleChars)
             THEN Invalid("Handle can only contain lowercase letters, numbers, and hyphens")
             ELSE IF Head(handle) = "-" \/ handle[Len(handle)] = "-"
             THEN Invalid("Handle cannot start or end with a hyphen")
             ELSE Valid(handle)

validate_handle(raw) ==
    IF ~raw.isStr \/ raw.s = <<>>
    THEN Invalid("Handle must be a non-empty string")
    ELSE LET stripped == Lower(Strip(raw.s))
             handle == SubRuns(stripped, SpaceChars, "-", 1)
         IN  IF stripped = <<>>
             THEN Invalid("Handle cannot be empty")
             ELSE IF ~MatchClassPlus(handle, HandleChars)
             THEN Invalid("Handle can only contain lowercase letters, numbers, and hyphens")
             ELSE IF Head(handle) = "-" \/ handle[Len(handle)] = "-"
             THEN Invalid("Handle cannot start or end with a hyphen")
             ELSE IF Contains(handle, <<"-", "-">>)
             THEN Invalid("Handle cannot contain consecutive hyphens")
             ELSE Valid(handle)

\* str.split(','): the pieces between the commas, from position i on, with
\* cur the piece being read
RECURSIVE SplitComma(_, _, _)
SplitComma(s, i, cur) ==
    IF i > Len(s) THEN <<cur>>
    ELSE IF s[i] = "," THEN <<cur>> \o SplitComma(s, i + 1, <<>>)
    ELSE SplitComma(s, i + 1, Append(cur, s[i]))

\* ', '.join(l)
RECURSIVE JoinCommaSpace(_)
JoinCommaSpace(l) ==
    IF l = <<>> THEN <<>>
    ELSE IF Len(l) = 1 THEN l[1]
    ELSE l[1] \o <<",", " ">> \o JoinCommaSpace(Tail(l))

TagChars == LowerChars \cup UpperChars \cup DigitChars \cup SpaceChars

\* validate_tags without the removal of the empty tags
validate_tags_keeps_empty(raw, handle) ==
    IF ~raw.isStr \/ raw.s = <<>>
    THEN Invalid("Tags must be a non-empty string")
    ELSE LET tags == Strip(raw.s)
             pieces == SplitComma(tags, 1, <<>>)
             tag_list == [i \in DOMAIN pieces |-> Strip(pieces[i])]
         IN  IF tags = <<>>
             THEN Invalid("Tags cannot be empty")
             ELSE IF handle # <<>>
             THEN Valid(Strip(SubRuns(handle, {"-"}, " ", 1)))
             ELSE IF tag_list = <<>>
             THEN Invalid("At least one valid tag is required")
             ELSE IF \E i \in DOMAIN tag_list : ~MatchClassPlus(tag_list[i], TagChars)
             THEN Invalid("Tag contains invalid characters")
             ELSE Valid(JoinCommaSpace(tag_list))

\* handle is the str passed as the second argument ('' when there is none)
validate_tags(raw, handle) ==
    IF ~raw.isStr \/ raw.s = <<>>
    THEN Invalid("Tags must be a non-empty string")
    ELSE LET tags == Strip(raw.s)
             pieces == SplitComma(tags, 1, <<>>)
             stripped == [i \in DOMAIN pieces |-> Strip(pieces[i])]
             tag_list == SelectSeq(stripped, LAMBDA t : t # <<>>)
         IN  IF tags = <<>>
             THEN Invalid("Tags cannot be empty")
             ELSE IF handle # <<>>
             THEN Valid(Strip(SubRuns(handle, {"-"}, " ", 1)))
             ELSE IF tag_list = <<>>
             THEN Invalid("At least one valid tag is required")
             ELSE IF \E i \in DOMAIN tag_list : ~MatchClassPlus(tag_list[i], TagChars)
             THEN Invalid("Tag contains invalid characters")
             ELSE Valid(JoinCommaSpace(tag_list))

----------------------------------------------------------------------------
(* Record model *)

\* for i, kw in enumerate(l): kw['order'] = i      (from 1-based position i on)
RECURSIVE EnumerateOrder(_, _, _)
EnumerateOrder(h, l, i) ==
    IF i > Len(l) THEN h
    ELSE EnumerateOrder([h EXCEPT ![l[i]].order = i - 1], l, i + 1)

\* [kw for kw in current_data if kw['volume'] >= min_volume]
FilterList(h, l, min_volume) == SelectSeq(l, LAMBDA r : h[r].volume >= min_volume)

\* [kw for kw in current_data if kw['id'] != keyword_id]
RemoveList(h, l, keyword_id) == SelectSeq(l, LAMBDA r : h[r].id # keyword_id)

\* the loop without its break: every dict with the id gets the tag
RECURSIVE SetEveryTag(_, _, _, _, _)
SetEveryTag(h, l, keyword_id, new_tag, i) ==
    IF i > Len(l) THEN h
    ELSE SetEveryTag(IF h[l[i]].id = keyword_id
                     THEN [h EXCEPT ![l[i]].tag = new_tag] ELSE h,
                     l, keyword_id, new_tag, i + 1)

\* for kw in current_data: if kw['id'] == keyword_id: kw['tag'] = new_tag; break
RECURSIVE SetFirstTag(_, _, _, _, _)
SetFirstTag(h, l, keyword_id, new_tag, i) ==
    IF i > Len(l) THEN h
    ELSE IF h[l[i]].id = keyword_id THEN [h EXCEPT ![l[i]].tag = new_tag]
    ELSE SetFirstTag(h, l, keyword_id, new_tag, i + 1)

\* for update in updates: ...
RECURSIVE ApplyUpdates(_, _, _, _)
ApplyUpdates(h, l, updates, k) ==
    IF k > Len(updates) THEN h
    ELSE ApplyUpdates(SetFirstTag(h, l, updates[k].id, updates[k].tag, 1),
                      l, updates, k + 1)

\* keyword_map = {kw['id']: kw for kw in current_data}: a later dict with the
\* same id replaces an earlier one
KeywordMapHas(h, l, keyword_id) == \E i \in DOMAIN l : h[l[i]].id = keyword_id
KeywordMap(h, l, keyword_id) ==
    LET last == CHOOSE i \in DOMAIN l :
                    /\ h[l[i]].id = keyword_id
                    /\ \A j \in DOMAIN l : h[l[j]].id = keyword_id => j <= i
    IN  l[last]

\* a loop over current_data that keeps, in their old sequence, the dicts whose
\* id new_order names
ReorderLoopOverData(h0, l0, new_order, i, acc) ==
    LET kept == SelectSeq(l0, LAMBDA r : h0[r].id \in Range(new_order))
    IN  [h |-> EnumerateOrder(h0, kept, 1), l |-> kept]

\* for i, keyword_id in enumerate(new_order):
\*     if keyword_id in keyword_map:
\*         keyword_map[keyword_id]['order'] = i
\*         reordered_data.append(keyword_map[keyword_id])
\* the pair <<heap, reordered_data>> after the loop from 1-based index i on
RECURSIVE ReorderLoop(_, _, _, _, _)
ReorderLoop(h0, l0, new_order, i, acc) ==
    IF i > Len(new_order) THEN acc
    ELSE IF KeywordMapHas(h0, l0, new_order[i])
         THEN LET r == KeywordMap(h0, l0, new_order[i])
              IN  ReorderLoop(h0, l0, new_order, i + 1,
                              [h |-> [acc.h EXCEPT ![r].order = i - 1],
                               l |-> Append(acc.l, r)])
         ELSE ReorderLoop(h0, l0, new_order, i + 1, acc)

----------------------------------------------------------------------------
(* Hierarchy builder: download_json and generate_content build the same     *)
(* body from a list of keyword dicts                                        *)

\* list.sort(key=lambda x: x['order']): stable, so dicts of equal order keep
\* their sequence.  Insert kw into the sorted list s behind every dict whose
\* order is not greater.
RECURSIVE InsertByOrder(_, _)
InsertByOrder(s, kw) ==
    IF s = <<>> THEN <<kw>>
    ELSE IF Head(s).order <= kw.order THEN <<Head(s)>> \o InsertByOrder(Tail(s), kw)
    ELSE <<kw>> \o s

RECURSIVE SortByOrder(_)
SortByOrder(s) ==
    IF s = <<>> THEN <<>>
    ELSE InsertByOrder(SortByOrder(SubSeq(s, 1, Len(s) - 1)), s[Len(s)])

\* the selection without the sort
TaggedUnsorted(json_data, tag) == SelectSeq(json_data, LAMBDA kw : kw.tag = tag)

\* [kw for kw in json_data if kw['tag'] == tag], sorted
Tagged(json_data, tag) == SortByOrder(SelectSeq(json_data, LAMBDA kw : kw.tag = tag))

H1Entry(kw) == [keyword |-> kw.keyword]

H3Entry(kw) == [keyword |-> kw.keyword, paragraphs |-> <<>>, bullets |-> <<>>]

\* for h3_kw in h3_keywords: if h3_kw.get('parent_id') == h2_kw['id']: append
H3Under(h3_keywords, h2_kw) ==
    LET mine == SelectSeq(h3_keywords, LAMBDA kw : kw.parent_id = h2_kw.id)
    IN  [i \in DOMAIN mine |-> H3Entry(mine[i])]

H2Entry(h3_keywords, h2_kw) ==
    [keyword |-> h2_kw.keyword, paragraphs |-> <<>>, bullets |-> <<>>,
     h3_keywords |-> H3Under(h3_keywords, h2_kw)]

BuildBody(json_data) ==
    LET h1_keywords == Tagged(json_data, "H1")
        h2_keywords == Tagged(json_data, "H2")
        h3_keywords == Tagged(json_data, "H3")
    IN  [h1_keywords |-> [i \in DOMAIN h1_keywords |-> H1Entry(h1_keywords[i])],
         h2_keywords |-> [i \in DOMAIN h2_keywords |->
                              H2Entry(h3_keywords, h2_keywords[i])],
         faqs_html |-> <<>>]

\* the final key order: of the keys present, in this sequence
KeyOrder == <<"hero", "head", "body", "images", "script", "identifier">>
\* re-inserts every key that is present, the listed ones first
OrderKeysAndRest(present) ==
    SelectSeq(KeyOrder \o <<"extra">>, LAMBDA k : k \in present)
OrderKeys(present) == SelectSeq(KeyOrder, LAMBDA k : k \in present)

----------------------------------------------------------------------------
(* The identifier of a download / generate request *)

\* identifier dict of a request: the keys it has and their raw values
NoIdentifier == [has_handle |-> FALSE, handle |-> NonStr,
                 has_tags |-> FALSE, tags |-> NonStr]

\* bool(identifier): a dict with a key
IdentifierGiven(identifier) == identifier.has_handle \/ identifier.has_tags

\* lines 553-566 and 743-756: validate handle, then tags against the
\* validated handle; the result is the error, or the identifier with the
\* validated values
ValidateIdentifier(identifier) ==
    LET vh == validate_handle(identifier.handle)
        validated_handle == IF identifier.has_handle THEN vh.value ELSE <<>>
        vt == validate_tags(identifier.tags, validated_handle)
    IN  IF identifier.has_handle /\ ~vh.ok
        THEN [ok |-> FALSE, error |-> "Invalid handle", reason |-> vh.error,
              identifier |-> NoIdentifier]
        ELSE IF identifier.has_tags /\ ~vt.ok
        THEN [ok |-> FALSE, error |-> "Invalid tags", reason |-> vt.error,
              identifier |-> NoIdentifier]
        ELSE [ok |-> TRUE, error |-> "", reason |-> "",
              identifier |->
                  [has_handle |-> identifier.has_handle,
                   handle |-> IF identifier.has_handle THEN StrVal(vh.value) ELSE NonStr,
                   has_tags |-> identifier.has_tags,
                   tags |-> IF identifier.has_tags THEN StrVal(vt.value) ELSE NonStr]]

----------------------------------------------------------------------------
(* The answer text of the generation service: json.loads and the repairs   *)
(* of clean_json_response                                                   *)

\* the argument and the result of the clean_json_response call under study
cleaning == <<response_text, cleaned_result>>
\* the argument and the result of the validate_and_fix_json call under study
validating == <<given_document, validated_document>>
\* the argument and the result of the generate_faq_schema call under study
extracting == <<given_fragments, extracted_schema>>
\* what a request that is served alone leaves as it is
aside == <<cleaning, validating, extracting, in_flight>>

\* the state of the handlers that serve one request at a time
handled == <<heap, current_data, request_identifier, response, calls, prompt, written>>

\* no answer text yet, and no call of clean_json_response yet
NoText == StrVal(<<>>)
NotCleaned == [done |-> FALSE, by |-> "", raised |-> FALSE, text |-> <<>>]
\* the call of the named copy returned this text, or raised
Cleaned(by, text) == [done |-> TRUE, by |-> by, raised |-> FALSE, text |-> text]
CleanRaised(by) == [done |-> TRUE, by |-> by, raised |-> TRUE, text |-> <<>>]

\* the white space json skips between tokens
JsonSpace == {" ", "\t", "\n", "\r"}
\* the white space of the regex class \s (its vertical tab has no TLA+ name)
RegexSpace == JsonSpace \cup {"\f"}
\* the regex class \w
WordChars == LowerChars \cup UpperChars \cup DigitChars \cup {"_"}

\* the first position from i on that holds no character of `space`
\* (Len(s) + 1 when there is none)
RECURSIVE SkipChars(_, _, _)
SkipChars(s, space, i) ==
    IF i <= Len(s) /\ s[i] \in space THEN SkipChars(s, space, i + 1) ELSE i

\* json.decoder.scanstring from the opening quote at i: the position after
\* the closing quote, 0 when the string does not end.  (Control characters
\* and the backslash end or escape a string; the texts here have neither.)
StringEnd(s, i) ==
    LET closing == {j \in (i + 1)..Len(s) : s[j] = "\""}
    IN  IF closing = {} THEN 0
        ELSE (CHOOSE j \in closing : \A k \in closing : j <= k) + 1

\* NUMBER_RE = (-?(?:0|[1-9]\d*))(\.\d+)?([eE][-+]?\d+)? matched at i: the
\* position after the match, 0 when there is none
NumberEnd(s, i) ==
    LET HasDigit(j) == j <= Len(s) /\ s[j] \in DigitChars
        a == IF i <= Len(s) /\ s[i] = "-" THEN i + 1 ELSE i
        int == IF ~HasDigit(a) THEN 0
               ELSE IF s[a] = "0" THEN a + 1
               ELSE SkipChars(s, DigitChars, a)
        frac == IF int # 0 /\ int <= Len(s) /\ s[int] = "." /\ HasDigit(int + 1)
                THEN SkipChars(s, DigitChars, int + 1)
                ELSE int
        sign == IF frac # 0 /\ frac + 1 <= Len(s) /\ s[frac + 1] \in {"-", "+"}
                THEN frac + 2 ELSE frac + 1
        exp == IF frac # 0 /\ frac <= Len(s) /\ s[frac] \in {"e", "E"}
                  /\ HasDigit(sign)
               THEN SkipChars(s, DigitChars, sign)
               ELSE frac
    IN  exp

\* the names json.loads reads as values
JsonNames ==
    {<<"n", "u", "l", "l">>, <<"t", "r", "u", "e">>, <<"f", "a", "l", "s", "e">>,
     <<"N", "a", "N">>, <<"I", "n", "f", "i", "n", "i", "t", "y">>,
     <<"-", "I", "n", "f", "i", "n", "i", "t", "y">>}

NameEnd(s, i) ==
    LET here == {n \in JsonNames : /\ i + Len(n) - 1 <= Len(s)
                                   /\ SubSeq(s, i, i + Len(n) - 1) = n}
    IN  IF here = {} THEN 0 ELSE i + Len(CHOOSE n \in here : TRUE)

\* json.scanner: the value that starts at i; the position after it, 0 when
\* there is no value.  JSONObject and JSONArray skip the white space around
\* their separators.
RECURSIVE ValueEnd(_, _)
RECURSIVE MembersEnd(_, _)
RECURSIVE ElementsEnd(_, _)

\* the members of an object from the key at i
MembersEnd(s, i) ==
    IF i > Len(s) \/ s[i] # "\"" THEN 0
    ELSE LET key == StringEnd(s, i)
             colon == SkipChars(s, JsonSpace, key)
         IN  IF key = 0 \/ colon > Len(s) \/ s[colon] # ":" THEN 0
             ELSE LET value == ValueEnd(s, SkipChars(s, JsonSpace, colon + 1))
                      next == SkipChars(s, JsonSpace, value)
                  IN  IF value = 0 \/ next > Len(s) THEN 0
                      ELSE IF s[next] = "}" THEN next + 1
                      ELSE IF s[next] = ","
                           THEN MembersEnd(s, SkipChars(s, JsonSpace, next + 1))
                           ELSE 0

\* the elements of an array from the value at i
ElementsEnd(s, i) ==
    LET value == ValueEnd(s, i)
        next == SkipChars(s, JsonSpace, value)
    IN  IF value = 0 \/ next > Len(s) THEN 0
        ELSE IF s[next] = "]" THEN next + 1
        ELSE IF s[next] = ","
             THEN ElementsEnd(s, SkipChars(s, JsonSpace, next + 1))
             ELSE 0

ValueEnd(s, i) ==
    IF i > Len(s) THEN 0
    ELSE IF s[i] = "\"" THEN StringEnd(s, i)
    ELSE IF s[i] = "{"
         THEN LET first == SkipChars(s, JsonSpace, i + 1)
              IN  IF first <= Len(s) /\ s[first] = "}" THEN first + 1
                  ELSE MembersEnd(s, first)
    ELSE IF s[i] = "["
         THEN LET first == SkipChars(s, JsonSpace, i + 1)
              IN  IF first <= Len(s) /\ s[first] = "]" THEN first + 1
                  ELSE ElementsEnd(s, first)
    ELSE IF NameEnd(s, i) # 0 THEN NameEnd(s, i)
    ELSE NumberEnd(s, i)

\* json.loads(s) returns: one value, white space around it, nothing else
Parses(s) ==
    LET end == ValueEnd(s, SkipChars(s, JsonSpace, 1))
    IN  end # 0 /\ SkipChars(s, JsonSpace, end) = Len(s) + 1

\* the text without the white space between its tokens: white space inside
\* a string stays
RECURSIVE Compact(_, _, _)
Compact(s, i, inString) ==
    IF i > Len(s) THEN <<>>
    ELSE IF s[i] = "\"" THEN <<s[i]>> \o Compact(s, i + 1, ~inString)
    ELSE IF ~inString /\ s[i] \in JsonSpace THEN Compact(s, i + 1, inString)
    ELSE <<s[i]>> \o Compact(s, i + 1, inString)

\* json.loads(s): whether it returns, and the value it returns.  The value
\* is written as its text without white space between tokens; for texts
\* without escapes, without number forms other than digit runs and without
\* an object that repeats a key, two values are equal exactly when these
\* texts are, up to the order of the keys of an object.
json_loads(s) ==
    IF Parses(s) THEN [ok |-> TRUE, value |-> Compact(s, 1, FALSE)]
    ELSE [ok |-> FALSE, value |-> <<>>]

\* re.search(r'\{.*\}', s, re.DOTALL): from the first '{' to the last '}'
SearchBraces(s) ==
    LET opens == {i \in 1..Len(s) : s[i] = "{"}
        first == CHOOSE i \in opens : \A k \in opens : i <= k
        closes == {j \in 1..Len(s) : s[j] = "}" /\ j > first}
        last == CHOOSE j \in closes : \A k \in closes : k <= j
    IN  IF opens = {} \/ closes = {} THEN [found |-> FALSE, group |-> <<>>]
        ELSE [found |-> TRUE, group |-> SubSeq(s, first, last)]

\* re.sub(r',(\s*[closers])', r'\1', s) from position i: a comma that only
\* white space separates from a closer goes, wherever it stands
RECURSIVE SubCommaBefore(_, _, _)
SubCommaBefore(s, closers, i) ==
    IF i > Len(s) THEN <<>>
    ELSE LET closer == SkipChars(s, RegexSpace, i + 1)
         IN  IF s[i] = "," /\ closer <= Len(s) /\ s[closer] \in closers
             THEN SubSeq(s, i + 1, closer) \o SubCommaBefore(s, closers, closer + 1)
             ELSE <<s[i]>> \o SubCommaBefore(s, closers, i + 1)

\* the characters [^\w\s\{\}\[\]",:.\-_\s] does not match
KeptAtEnd ==
    WordChars \cup RegexSpace \cup {"{", "}", "[", "]", "\"", ",", ":", ".", "-", "_"}

RECURSIVE DropTrailing(_, _)
DropTrailing(s, keep) ==
    IF s # <<>> /\ s[Len(s)] \notin keep
    THEN DropTrailing(SubSeq(s, 1, Len(s) - 1), keep)
    ELSE s

\* re.sub(r'[^\w\s\{\}\[\]",:.\-_\s]+$', '', s): the run of other characters
\* at the end goes, where $ is the end or the place before a final newline
SubStrayEnd(s) ==
    IF s # <<>> /\ s[Len(s)] = "\n"
    THEN DropTrailing(SubSeq(s, 1, Len(s) - 1), KeptAtEnd) \o <<"\n">>
    ELSE DropTrailing(s, KeptAtEnd)

\* re.sub(r"'$", '', s)
SubQuoteEnd(s) ==
    IF s # <<>> /\ s[Len(s)] = "'" THEN SubSeq(s, 1, Len(s) - 1)
    ELSE IF Len(s) >= 2 /\ s[Len(s)] = "\n" /\ s[Len(s) - 1] = "'"
         THEN SubSeq(s, 1, Len(s) - 2) \o <<"\n">>
         ELSE s

\* the six substitutions, in the order of the code
CleanExtracted(extracted_json) ==
    LET c1 == SubCommaBefore(extracted_json, {"}", "]"}, 1)
        c2 == SubCommaBefore(c1, {"\""}, 1)
        c3 == SubCommaBefore(c2, {"}"}, 1)
        c4 == SubCommaBefore(c3, {"]"}, 1)
        c5 == SubStrayEnd(c4)
    IN  SubQuoteEnd(c5)

\* from the regex search on: the cleaned span when it parses, else the span
\* as extracted when that parses, else `failed`
ExtractAndClean(s, failed) ==
    LET json_match == SearchBraces(s)
        extracted_json == json_match.group
        cleaned_json == CleanExtracted(extracted_json)
    IN  IF ~json_match.found THEN failed
        ELSE IF json_loads(cleaned_json).ok THEN cleaned_json
        ELSE IF json_loads(extracted_json).ok THEN extracted_json
        ELSE failed

\* clean_json_response of app.py: '' is its failure value
clean_json_response(raw) ==
    IF ~raw.isStr \/ raw.s = <<>> THEN Cleaned("app", <<>>)
    ELSE IF json_loads(raw.s).ok THEN Cleaned("app", raw.s)
    ELSE Cleaned("app", ExtractAndClean(raw.s, <<>>))

\* clean_json_response of gemini_content_generator.py: no test of its
\* argument (json.loads of a value that is no str raises TypeError), and the
\* argument itself comes back when nothing parses
generator_clean_json_response(raw) ==
    IF ~raw.isStr THEN CleanRaised("generator")
    ELSE IF json_loads(raw.s).ok THEN Cleaned("generator", raw.s)
    ELSE Cleaned("generator", ExtractAndClean(raw.s, raw.s))

\* the two copies, called on the answer text
CleanInApp ==
    /\ ~cleaned_result.done
    /\ cleaned_result' = clean_json_response(response_text)
    /\ UNCHANGED <<handled, response_text, validating, extracting, in_flight>>

CleanInGenerator ==
    /\ ~cleaned_result.done
    /\ cleaned_result' = generator_clean_json_response(response_text)
    /\ UNCHANGED <<handled, response_text, validating, extracting, in_flight>>

----------------------------------------------------------------------------
(* validate_and_fix_json: json.dumps, the repairs, json.loads *)

\* a parsed JSON value that is no str (a dict, a list, a number), written
\* as its text without white space between tokens
Parsed(s) == [isStr |-> FALSE, s |-> s]

\* no document yet, and no call of validate_and_fix_json yet
NoDocument == Parsed(<<>>)
NotValidated == [done |-> FALSE, isNone |-> FALSE, value |-> <<>>]
\* the call returned this value, or None
Validated(value) == [done |-> TRUE, isNone |-> FALSE, value |-> value]
ValidatedNone == [done |-> TRUE, isNone |-> TRUE, value |-> <<>>]

\* the string value with this text, as JSON text
Quote(text) == <<"\"">> \o text \o <<"\"">>
\* and back
Unquote(s) == SubSeq(s, 2, Len(s) - 1)

Spaces(n) == [i \in 1..n |-> " "]

\* json.dumps(value, indent=2, ensure_ascii=False) from position i of the
\* value's text: every member and element on a line of its own, two spaces
\* deeper than its container, ': ' after a key, '{}' and '[]' for the empty
\* containers.  (No character of the texts here needs an escape.)
RECURSIVE Dumps(_, _, _, _)
Dumps(s, i, depth, inString) ==
    IF i > Len(s) THEN <<>>
    ELSE IF inString
         THEN <<s[i]>> \o Dumps(s, i + 1, depth, s[i] # "\"")
    ELSE IF s[i] = "\"" THEN <<s[i]>> \o Dumps(s, i + 1, depth, TRUE)
    ELSE IF s[i] \in {"{", "["}
         THEN IF i < Len(s) /\ s[i + 1] \in {"}", "]"}
              THEN <<s[i], s[i + 1]>> \o Dumps(s, i + 2, depth, FALSE)
              ELSE <<s[i], "\n">> \o Spaces(2 * (depth + 1))
                   \o Dumps(s, i + 1, depth + 1, FALSE)
    ELSE IF s[i] \in {"}", "]"}
         THEN <<"\n">> \o Spaces(2 * (depth - 1)) \o <<s[i]>>
              \o Dumps(s, i + 1, depth - 1, FALSE)
    ELSE IF s[i] = ","
         THEN <<",", "\n">> \o Spaces(2 * depth) \o Dumps(s, i + 1, depth, FALSE)
    ELSE IF s[i] = ":" THEN <<":", " ">> \o Dumps(s, i + 1, depth, FALSE)
    ELSE <<s[i]>> \o Dumps(s, i + 1, depth, FALSE)

\* the four substitutions of validate_and_fix_json, in the order of the code
CleanDumped(json_string) ==
    LET c1 == SubCommaBefore(json_string, {"}"}, 1)
        c2 == SubCommaBefore(c1, {"]"}, 1)
        c3 == SubStrayEnd(c2)
    IN  SubQuoteEnd(c3)

\* returns the document as given, without the substitutions
validate_and_fix_json_pure(data) ==
    IF data.isStr /\ ~json_loads(data.s).ok THEN ValidatedNone
    ELSE Validated(IF data.isStr THEN json_loads(data.s).value ELSE data.s)

\* validate_and_fix_json: a str is parsed first; the value is dumped, the
\* dump is cleaned and parsed again; None when a parse fails
validate_and_fix_json(data) ==
    IF data.isStr /\ ~json_loads(data.s).ok THEN ValidatedNone
    ELSE LET value == IF data.isStr THEN json_loads(data.s).value ELSE data.s
             json_string == Dumps(value, 1, 0, FALSE)
             cleaned_json == CleanDumped(json_string)
             validated == json_loads(cleaned_json)
         IN  IF validated.ok THEN Validated(validated.value) ELSE ValidatedNone

\* the call on the document under study
ValidateDocument ==
    /\ ~validated_document.done
    /\ validated_document' = validate_and_fix_json(given_document)
    /\ UNCHANGED <<handled, cleaning, given_document, extracting, in_flight>>

----------------------------------------------------------------------------
(* generate_faq_schema *)

\* what generate_faq_schema is given: a list of fragments (each a str or a
\* value of another type), or a value that is no list
Fragments(items) == [isList |-> TRUE, items |-> items]
NotAList == [isList |-> FALSE, items |-> <<>>]

\* nothing to extract from yet, and no call of generate_faq_schema yet
NoFragments == Fragments(<<>>)
NotExtracted == [done |-> FALSE, mainEntity |-> <<>>]
\* the schema the call returned, by its mainEntity list; {} is the schema
\* without an entity
Schema(faq_items) == [done |-> TRUE, mainEntity |-> faq_items]
\* one Question entity: its name and the text of its acceptedAnswer
Question(question, answer) == [name |-> question, text |-> answer]

\* the string starts at position i of s, whatever the case of its letters
StartsAt(s, i, word) ==
    /\ i + Len(word) - 1 <= Len(s)
    /\ Lower(SubSeq(s, i, i + Len(word) - 1)) = word

\* the least position from i on where the string starts, 0 when there is none
FirstFrom(s, i, word) ==
    LET at == {k \in i..Len(s) : StartsAt(s, k, word)}
    IN  IF at = {} THEN 0 ELSE CHOOSE k \in at : \A m \in at : k <= m

\* re.search(r'<name[^>]*>(.*?)</name>', s, re.DOTALL | re.IGNORECASE): the
\* leftmost '<name' that a '>' follows with '</name>' after it, and as
\* group 1 the text from that '>' to the first '</name>'
SearchElement(s, name) ==
    LET open == <<"<">> \o name
        close == <<"<", "/">> \o name \o <<">">>
        Gt(i) == FirstFrom(s, i + Len(open), <<">">>)
        Close(i) == IF Gt(i) = 0 THEN 0 ELSE FirstFrom(s, Gt(i) + 1, close)
        starts == {i \in 1..Len(s) : StartsAt(s, i, open) /\ Close(i) # 0}
        start == CHOOSE i \in starts : \A k \in starts : i <= k
    IN  IF starts = {} THEN [found |-> FALSE, group |-> <<>>]
        ELSE [found |-> TRUE, group |-> SubSeq(s, Gt(start) + 1, Close(start) - 1)]

\* re.sub(r'<[^>]+>', '', s) from position i: a '<', one or more characters
\* other than '>', and the '>' after them go
RECURSIVE SubTags(_, _)
SubTags(s, i) ==
    IF i > Len(s) THEN <<>>
    ELSE LET gt == FirstFrom(s, i + 1, <<">">>)
         IN  IF s[i] = "<" /\ gt > i + 1
             THEN SubTags(s, gt + 1)
             ELSE <<s[i]>> \o SubTags(s, i + 1)

\* the body of the loop for one fragment: the entity it adds, if any
FaqItem(faq_html) ==
    LET question_match == SearchElement(faq_html.s, <<"h", "2">>)
        answer_match == SearchElement(faq_html.s, <<"p">>)
        question == Strip(question_match.group)
        answer == SubTags(Strip(answer_match.group), 1)
    IN  IF ~faq_html.isStr \/ ~question_match.found \/ ~answer_match.found
           \/ question = <<>> \/ answer = <<>>
        THEN <<>>
        ELSE <<Question(question, answer)>>

RECURSIVE FaqItems(_)
FaqItems(items) ==
    IF items = <<>> THEN <<>> ELSE FaqItem(Head(items)) \o FaqItems(Tail(items))

\* adds an entity for every fragment with an <h2> element, whatever else
generate_faq_schema_questions_only(html) ==
    IF ~html.isList THEN Schema(<<>>)
    ELSE Schema([i \in 1..Len(SelectSeq(html.items, LAMBDA f :
                        f.isStr /\ SearchElement(f.s, <<"h", "2">>).found)) |->
                 Question(<<>>, <<>>)])

\* generate_faq_schema: {} for no list, for an empty list and when no
\* fragment gives an entity
generate_faq_schema(html) ==
    IF ~html.isList THEN Schema(<<>>) ELSE Schema(FaqItems(html.items))

\* the call on the fragments under study
ExtractSchema ==
    /\ ~extracted_schema.done
    /\ extracted_schema' = generate_faq_schema(given_fragments)
    /\ UNCHANGED <<handled, cleaning, validating, given_fragments, in_flight>>

----------------------------------------------------------------------------
(* Handlers *)

Init ==
    /\ heap = <<>>
    /\ current_data = NoData
    /\ response = NoResponse
    /\ calls = 0
    /\ prompt = <<>>
    /\ request_identifier = NoIdentifier
    /\ written = <<>>
    /\ response_text = NoText
    /\ cleaned_result = NotCleaned
    /\ given_document = NoDocument
    /\ validated_document = NotValidated
    /\ given_fragments = NoFragments
    /\ extracted_schema = NotExtracted
    /\ in_flight = <<>>

\* POST /upload: a CSV whose cleaned rows have the volumes vols (keyword
\* texts are distinct after drop_duplicates), or a request that is refused
\* (no file, no file name, not a CSV, an unreadable CSV)
upload_file(good, vols) ==
    /\ calls' = 0
    /\ prompt' = <<>>
    /\ request_identifier' = NoIdentifier
    /\ written' = <<>>
    /\ IF good
       THEN /\ heap' = [r \in 1..Len(vols) |-> NewKeyword(r - 1, vols[r])]
            /\ current_data' = Loaded([r \in 1..Len(vols) |-> r])
            /\ response' = Ok("Successfully loaded",
                              [r \in 1..Len(vols) |-> NewKeyword(r - 1, vols[r])])
       ELSE /\ UNCHANGED <<heap, current_data>>
            /\ response' = Err(400, "No file uploaded")

\* a /filter that installs the list it returns as the current collection
filter_keywords_installs(min_volume) ==
    /\ calls' = 0
    /\ prompt' = <<>>
    /\ request_identifier' = NoIdentifier
    /\ written' = <<>>
    /\ IF current_data.isNone
       THEN /\ UNCHANGED <<heap, current_data>>
            /\ response' = Err(400, "No data loaded")
       ELSE LET filtered_data == FilterList(heap, current_data.list, min_volume)
                h2 == EnumerateOrder(heap, filtered_data, 1)
            IN  /\ heap' = Collect(h2, filtered_data)
                /\ current_data' = Loaded(filtered_data)
                /\ response' = Ok("", Deref(h2, filtered_data))

\* POST /filter
filter_keywords(min_volume) ==
    /\ calls' = 0
    /\ prompt' = <<>>
    /\ request_identifier' = NoIdentifier
    /\ written' = <<>>
    /\ UNCHANGED current_data
    /\ IF current_data.isNone
       THEN /\ UNCHANGED heap
            /\ response' = Err(400, "No data loaded")
       ELSE LET filtered_data == FilterList(heap, current_data.list, min_volume)
                h2 == EnumerateOrder(heap, filtered_data, 1)
            IN  /\ heap' = h2
                /\ response' = Ok("", Deref(h2, filtered_data))

\* POST /update_tags
update_tags(updates) ==
    /\ calls' = 0
    /\ prompt' = <<>>
    /\ request_identifier' = NoIdentifier
    /\ written' = <<>>
    /\ UNCHANGED current_data
    /\ IF current_data.isNone
       THEN /\ UNCHANGED heap
            /\ response' = Err(400, "No data loaded")
       ELSE /\ heap' = ApplyUpdates(heap, current_data.list, updates, 1)
            /\ response' = Ok("Tags updated successfully", <<>>)

\* a /remove_keyword that takes no collection for an empty one
remove_keyword_unguarded(keyword_id) ==
    /\ calls' = 0
    /\ prompt' = <<>>
    /\ request_identifier' = NoIdentifier
    /\ written' = <<>>
    /\ LET l2 == RemoveList(heap, current_data.list, keyword_id)
       IN  /\ current_data' = Loaded(l2)
           /\ heap' = Collect(EnumerateOrder(heap, l2, 1), l2)
           /\ response' = Ok("Keyword removed successfully", <<>>)

\* POST /remove_keyword
remove_keyword(keyword_id) ==
    /\ calls' = 0
    /\ prompt' = <<>>
    /\ request_identifier' = NoIdentifier
    /\ written' = <<>>
    /\ IF current_data.isNone
       THEN /\ UNCHANGED <<heap, current_data>>
            /\ response' = Err(400, "No data loaded")
       ELSE LET l2 == RemoveList(heap, current_data.list, keyword_id)
            IN  /\ current_data' = Loaded(l2)
                /\ heap' = Collect(EnumerateOrder(heap, l2, 1), l2)
                /\ response' = Ok("Keyword removed successfully", <<>>)

\* POST /reorder
reorder_keywords(new_order) ==
    /\ calls' = 0
    /\ prompt' = <<>>
    /\ request_identifier' = NoIdentifier
    /\ written' = <<>>
    /\ IF current_data.isNone
       THEN /\ UNCHANGED <<heap, current_data>>
            /\ response' = Err(400, "No data loaded")
       ELSE LET res == ReorderLoop(heap, current_data.list, new_order, 1,
                                   [h |-> heap, l |-> <<>>])
            IN  /\ current_data' = Loaded(res.l)
                /\ heap' = Collect(res.h, res.l)
                /\ response' = Ok("Keywords reordered successfully", <<>>)

\* POST /update_data: new_data is the list of keyword dicts of the request
\* body, parsed from JSON, so each dict is a fresh one
update_data(new_data) ==
    /\ calls' = 0
    /\ prompt' = <<>>
    /\ request_identifier' = NoIdentifier
    /\ written' = <<>>
    /\ IF new_data # <<>>
       THEN /\ heap' = [r \in 1..Len(new_data) |-> new_data[r]]
            /\ current_data' = Loaded([r \in 1..Len(new_data) |-> r])
            /\ response' = Ok("Data updated successfully", <<>>)
       ELSE /\ UNCHANGED <<heap, current_data>>
            /\ response' = Err(400, "No data provided")

\* the name download_json gives the file: the validated handle, else the
\* text of the first H1 dict of the list, else the default
DownloadName(download_data, identifier) ==
    LET h1_keywords == SelectSeq(download_data, LAMBDA kw : kw.tag = "H1")
    IN  IF IdentifierGiven(identifier) /\ identifier.has_handle
        THEN [from |-> "handle", handle |-> identifier.handle.s, keyword |-> NoneVal]
        ELSE IF h1_keywords # <<>>
        THEN [from |-> "h1", handle |-> <<>>, keyword |-> h1_keywords[1].keyword]
        ELSE [from |-> "default", handle |-> <<>>, keyword |-> NoneVal]

\* the document download_json writes: structured_data with its keys
\* re-inserted in the final order
DownloadDoc(download_data, identifier) ==
    LET present == {"head", "body", "script"} \cup
                   (IF IdentifierGiven(identifier) THEN {"identifier"} ELSE {})
    IN  [keys |-> OrderKeys(present),
         from |-> [k \in present |-> IF k = "identifier" THEN "caller" ELSE "built"],
         body |-> BuildBody(download_data),
         faq_schema |-> <<>>,
         identifier |-> identifier,
         hero |-> <<>>,
         images |-> <<>>,
         name |-> DownloadName(download_data, identifier)]

\* a /download that keeps the 'data' list of its body as the collection
download_json_installing(req) ==
    /\ calls' = 0
    /\ prompt' = <<>>
    /\ request_identifier' = req.identifier
    /\ IF current_data.isNone
       THEN /\ UNCHANGED <<heap, current_data>>
            /\ written' = <<>>
            /\ response' = Err(400, "No data loaded")
       ELSE LET checked == IF req.has_data THEN ValidateIdentifier(req.identifier)
                           ELSE ValidateIdentifier(NoIdentifier)
                download_data == IF req.has_data THEN req.data
                                 ELSE Deref(heap, current_data.list)
            IN  /\ heap' = [r \in 1..Len(download_data) |-> download_data[r]]
                /\ current_data' = Loaded([r \in 1..Len(download_data) |-> r])
                /\ IF ~checked.ok
                   THEN /\ written' = <<>>
                        /\ response' = Err(400, checked.error)
                   ELSE /\ written' = <<DownloadDoc(download_data, checked.identifier)>>
                        /\ response' = Ok("file", <<>>)

\* POST /download.  req: has_data (the body has a 'data' list), data,
\* identifier (the body's 'identifier' dict, read only beside 'data')
download_json(req) ==
    /\ calls' = 0
    /\ prompt' = <<>>
    /\ request_identifier' = req.identifier
    /\ UNCHANGED <<heap, current_data>>
    /\ IF current_data.isNone
       THEN /\ written' = <<>>
            /\ response' = Err(400, "No data loaded")
       ELSE LET checked == IF req.has_data THEN ValidateIdentifier(req.identifier)
                           ELSE ValidateIdentifier(NoIdentifier)
                download_data == IF req.has_data THEN req.data
                                 ELSE Deref(heap, current_data.list)
            IN  IF ~checked.ok
                THEN /\ written' = <<>>
                     /\ response' = Err(400, checked.error)
                ELSE /\ written' = <<DownloadDoc(download_data, checked.identifier)>>
                     /\ response' = Ok("file", <<>>)

----------------------------------------------------------------------------
(* generate_content *)

\* the least number of FAQs generate_content accepts without asking again
MinFaqs == 15

\* images_data after lines 700-734 (handle is the request's raw handle, ''
\* when there is none): each image gets the handle as alt text, with a
\* 1-based index when there are several; without a handle a URL string gets
\* the name in its URL and a dict keeps its alt text
ProcessImages(images, handle) ==
    [i \in DOMAIN images |->
        [url |-> images[i].url,
         alt |-> IF handle # <<>>
                 THEN [from |-> "handle", handle |-> handle,
                       index |-> IF Len(images) > 1 THEN i ELSE 0]
                 ELSE [from |-> IF images[i].isStr THEN "url" ELSE "alt",
                       handle |-> <<>>, index |-> 0]]]

\* generate_faq_schema on a list of fragments: the fragments that yield a
\* question and an answer, in list order; {} when there is none
FaqSchema(faqs_html) == SelectSeq(faqs_html, LAMBDA f : f = "qa")

\* len(ai_generated_data.get('body', {}).get('faqs_html', []))
FaqsCount(ai) == IF "body" \in ai.keys THEN Len(ai.faqs) ELSE 0

\* what one call of model.generate_content gives, as far as the handler
\* tells the cases apart:
\*   raise    the call raises
\*   notext   a response without text, or with text ''
\*   blank    text of whitespace only
\*   garbage  text clean_json_response finds no JSON in
\*   nondict  text that parses to a JSON value that is no object
\*   doc      text that parses to an object with the top-level keys `keys`
\*            and the fragments `faqs` in body.faqs_html
Service(kind, keys, faqs) == [kind |-> kind, keys |-> keys, faqs |-> faqs]

\* asks again whenever the first answer is a document
RegeneratesAnyDocument(svc1) == svc1.kind = "doc"

\* lines 902-903: the first answer parsed to a document with fewer FAQs than
\* the minimum, so the service is asked again
Regenerates(svc1) == svc1.kind = "doc" /\ FaqsCount(svc1) < MinFaqs

\* tries a call that raised once more
CallsMadeRetrying(svc1) ==
    IF Regenerates(svc1) \/ svc1.kind = "raise" THEN 2 ELSE 1

\* the calls of model.generate_content in a request that got as far as the
\* first one (lines 863 and 907)
CallsMade(svc1) == IF Regenerates(svc1) THEN 2 ELSE 1

\* carries the second answer on only when it has no fewer FAQs
AfterRegenerationKeepsMore(ai, svc2) ==
    IF svc2.kind = "nondict" \/ (svc2.kind = "doc" /\ FaqsCount(svc2) >= FaqsCount(ai))
    THEN svc2 ELSE ai

\* the regeneration of lines 903-918: the document carried on after the
\* second call answered svc2
AfterRegeneration(ai, svc2) ==
    IF svc2.kind \in {"doc", "nondict"} THEN svc2 ELSE ai

\* the name of the output file: the handle if it validates again, else the
\* text of the first H1 dict, else the default
OutputName(json_data, identifier) ==
    LET h1_keywords == SelectSeq(json_data, LAMBDA kw : kw.tag = "H1")
        again == validate_handle(identifier.handle)
    IN  IF IdentifierGiven(identifier) /\ identifier.has_handle /\ again.ok
        THEN [from |-> "handle", handle |-> again.value, keyword |-> NoneVal]
        ELSE IF h1_keywords # <<>>
        THEN [from |-> "h1", handle |-> <<>>, keyword |-> h1_keywords[1].keyword]
        ELSE [from |-> "default", handle |-> <<>>, keyword |-> NoneVal]

\* the hero dict generate_content builds from the 'tagline' of the request
\* (lines 685-690 and 929-935), as JSON text, and the tagline of such a dict
HeroDict(tagline) ==
    <<"{", "\"", "t", "a", "g", "l", "i", "n", "e", "\"", ":">> \o Quote(tagline)
    \o <<"}">>
TaglineOf(hero) == Unquote(SubSeq(hero, Len(HeroDict(<<>>)) - 2, Len(hero) - 1))

\* the 'tagline' of the hero of the request: none, a plain one, and one with
\* a comma before a closing brace
NoTagline == <<>>
Tagline == <<"t">>
TaglineCommaBrace == <<"t", ",", "}">>

HeroInputs == {NoTagline, Tagline, TaglineCommaBrace}

\* line 941: validate_and_fix_json on the document with the hero of the
\* request, and line 977: once more on what line 941 returned; one entry for
\* each hero a request may carry
FirstValidation ==
    [tagline \in HeroInputs |-> validate_and_fix_json(Parsed(HeroDict(tagline)))]
FinalValidation ==
    [tagline \in HeroInputs |->
        IF FirstValidation[tagline].isNone THEN ValidatedNone
        ELSE validate_and_fix_json(Parsed(FirstValidation[tagline].value))]

\* lines 924-974: identifier, hero and images are set on the parsed document,
\* the script is added, and the keys are re-inserted in the final order
AssembleDoc(ai, json_data, identifier, hero, images) ==
    LET present == ai.keys \cup {"hero", "images", "script"} \cup
                   (IF IdentifierGiven(identifier) THEN {"identifier"} ELSE {})
        Source(k) == IF k \in {"hero", "images"} THEN "caller"
                     ELSE IF k = "identifier" /\ IdentifierGiven(identifier) THEN "caller"
                     ELSE IF k = "script" THEN "built"
                     ELSE "ai"
        kept == present \cap Range(KeyOrder)
    IN  [keys |-> OrderKeys(present),
         from |-> [k \in kept |-> Source(k)],
         body |-> [from |-> "ai", faqs_html |-> ai.faqs],
         faq_schema |-> FaqSchema(IF "body" \in ai.keys THEN ai.faqs ELSE <<>>),
         identifier |-> identifier,
         hero |-> hero,
         images |-> images,
         name |-> OutputName(json_data, identifier)]

\* POST /generate_content.
\*   req.has_data, req.data, req.identifier: as for /download
\*   req.nested: 'data' is an object {data, identifier} (lines 762-783)
\*   req.is_list: the keyword data is a list (line 795)
\*   req.hero, req.images: the hero dict and the image list of the body
\*   setup: setup_gemini gives a model;  svc1, svc2: what the first and the
\*   second call of the service give;  disk: the output file can be written
generate_content(req, setup, svc1, svc2, disk) ==
    /\ UNCHANGED <<heap, current_data>>
    /\ request_identifier' = req.identifier
    /\ IF current_data.isNone
       THEN /\ calls' = 0
            /\ written' = <<>>
            /\ response' = Err(400, "No data loaded")
       ELSE LET \* line 698; a handle that is no string counts as none here
                raw_handle == IF req.identifier.has_handle /\ req.identifier.handle.isStr
                              THEN req.identifier.handle.s ELSE <<>>
                images_data == ProcessImages(req.images, raw_handle)
                outer == IF req.has_data THEN ValidateIdentifier(req.identifier)
                         ELSE ValidateIdentifier(NoIdentifier)
                inner == ValidateIdentifier(req.nested_identifier)
                use_inner == req.has_data /\ req.nested /\ req.has_nested_identifier
                checked == IF use_inner THEN inner ELSE outer
                json_data == IF req.has_data THEN req.data
                             ELSE Deref(heap, current_data.list)
                ai == IF Regenerates(svc1) THEN AfterRegeneration(svc1, svc2) ELSE svc1
            IN  \* lines 941 and 977: the hero is the part of the document
                \* the model has the text of; the substitutions rewrite
                \* commas inside strings alone, so they act on it as on a
                \* document of its own
                \E validated_data \in {FirstValidation[req.hero]},
                   final_validated_data \in {FinalValidation[req.hero]} :
                LET doc == AssembleDoc(ai, json_data, checked.identifier,
                                       TaglineOf(final_validated_data.value),
                                       images_data)
                IN
                IF ~outer.ok
                THEN /\ calls' = 0
                     /\ written' = <<>>
                     /\ response' = Err(400, outer.error)
                ELSE IF ~checked.ok
                THEN /\ calls' = 0
                     /\ written' = <<>>
                     /\ response' = Err(400, checked.error)
                ELSE IF req.has_data /\ ~req.is_list
                THEN /\ calls' = 0
                     /\ written' = <<>>
                     /\ response' = Err(400, "Data must be a list of keywords")
                ELSE IF ~setup
                THEN /\ calls' = 0
                     /\ written' = <<>>
                     /\ response' = Err(500, "Failed to setup Gemini AI")
                ELSE IF svc1.kind = "raise"
                THEN /\ calls' = CallsMade(svc1)
                     /\ written' = <<>>
                     /\ response' = Err(500, "Failed to call Gemini API")
                ELSE IF svc1.kind \in {"notext", "blank"}
                THEN /\ calls' = CallsMade(svc1)
                     /\ written' = <<>>
                     /\ response' = Err(500, "No valid response from Gemini AI")
                ELSE IF svc1.kind = "garbage"
                THEN /\ calls' = CallsMade(svc1)
                     /\ written' = <<>>
                     /\ response' = Err(500, "AI returned empty response")
                ELSE IF svc1.kind = "nondict" \/ ai.kind = "nondict"
                THEN /\ calls' = CallsMade(svc1)
                     /\ written' = <<>>
                     /\ response' = Err(500, "Error generating content")
                ELSE IF validated_data.isNone
                THEN /\ calls' = CallsMade(svc1)
                     /\ written' = <<>>
                     /\ response' = Err(500, "Failed to validate JSON data")
                ELSE IF final_validated_data.isNone
                THEN /\ calls' = CallsMade(svc1)
                     /\ written' = <<>>
                     /\ response' = Err(500, "Failed to validate final JSON data")
                ELSE IF ~disk
                THEN /\ calls' = CallsMade(svc1)
                     /\ written' = <<>>
                     /\ response' = Err(500, "Error saving file")
                ELSE /\ calls' = CallsMade(svc1)
                     /\ written' = <<doc>>
                     /\ response' = Ok("Content generated successfully", <<>>)
    \* lines 803-853: the body of structured_data, which every prompt of the
    \* request is made from
    /\ prompt' = IF calls' = 0 THEN <<>>
                 ELSE <<BuildBody(IF req.has_data THEN req.data
                                  ELSE Deref(heap, current_data.list))>>

----------------------------------------------------------------------------
(* Requests *)

UploadInputs == SeqsOf(Volumes, 0, MaxKw)
MinVolumes == 0..(MaxVolume + 1)
UpdateInputs == SeqsOf([id : Ids \cup {NoneVal}, tag : Tags], 0, MaxUpdates)
RemoveInputs == Ids \cup {NoneVal}
ReorderInputs == SeqsOf(Ids, 0, MaxOrderLen)

\* what a client may post as the new collection: the dict at 0-based position
\* i has the text and order i, the id i or (the server does not look) the id
\* 0 again, and the tag and the parent the operator chose
ClientKeywords(i) ==
    [id : {0, i}, keyword : {i}, volume : {0}, tag : {"H2", "H3"}, order : {i},
     parent_id : {NoneVal, 0}]
DataInputs ==
    UNION {{l \in [1..n -> UNION {ClientKeywords(i) : i \in 0..(MaxKw - 1)}] :
                \A k \in 1..n : l[k] \in ClientKeywords(k - 1)} : n \in 0..MaxKw}


\* identifiers of the requests: none, a handle that validates, one that does
\* not, tags that do not, a handle with tags
HandleOnly(h) == [NoIdentifier EXCEPT !.has_handle = TRUE, !.handle = StrVal(h)]
TagsOnly(t) == [NoIdentifier EXCEPT !.has_tags = TRUE, !.tags = StrVal(t)]
IdentifierInputs ==
    {NoIdentifier,
     HandleOnly(<<"N", "a", " ", "b">>),
     HandleOnly(<<"-", "a">>),
     TagsOnly(<<"a", "!">>),
     [has_handle |-> TRUE, handle |-> StrVal(<<"a", "-", "b">>),
      has_tags |-> TRUE, tags |-> StrVal(<<"x">>)]}

\* a list a request carries in place of current_data
RequestData ==
    <<[id |-> 0, keyword |-> 0, volume |-> 0, tag |-> "H1", order |-> 1,
       parent_id |-> NoneVal],
      [id |-> 1, keyword |-> 1, volume |-> 0, tag |-> "H2", order |-> 0,
       parent_id |-> NoneVal]>>

DownloadInputs ==
    [has_data : {FALSE}, data : {<<>>}, identifier : {NoIdentifier}]
    \cup [has_data : {TRUE}, data : {RequestData}, identifier : IdentifierInputs]

NoImages == <<>>
TwoImages == <<[url |-> 1, isStr |-> TRUE], [url |-> 2, isStr |-> TRUE]>>

GenerateInputs ==
    [has_data : {FALSE}, data : {<<>>}, identifier : {NoIdentifier},
     nested : {FALSE}, has_nested_identifier : {FALSE},
     nested_identifier : {NoIdentifier}, is_list : {TRUE},
     hero : {NoTagline}, images : {NoImages}]
    \cup [has_data : {TRUE}, data : {RequestData}, identifier : IdentifierInputs,
          nested : {FALSE}, has_nested_identifier : {FALSE},
          nested_identifier : {NoIdentifier}, is_list : {TRUE},
          hero : {Tagline}, images : {TwoImages}]
    \cup [has_data : {TRUE}, data : {RequestData}, identifier : {NoIdentifier},
          nested : {TRUE}, has_nested_identifier : {TRUE},
          nested_identifier : {TagsOnly(<<"a", "!">>), TagsOnly(<<"a">>)},
          is_list : BOOLEAN, hero : {Tagline}, images : {NoImages}]
    \* a tagline that the validation before the write rewrites
    \cup [has_data : {FALSE}, data : {<<>>}, identifier : {NoIdentifier},
          nested : {FALSE}, has_nested_identifier : {FALSE},
          nested_identifier : {NoIdentifier}, is_list : {TRUE},
          hero : {TaglineCommaBrace}, images : {NoImages}]
    \* a body with an identifier and no 'data'
    \cup [has_data : {FALSE}, data : {<<>>}, identifier : {HandleOnly(<<"-", "a">>)},
          nested : {FALSE}, has_nested_identifier : {FALSE},
          nested_identifier : {NoIdentifier}, is_list : {TRUE},
          hero : {Tagline}, images : {TwoImages}]

Faqs(n, f) == [i \in 1..n |-> f]

\* what the service may answer
ServiceInputs ==
    {Service(k, {}, <<>>) : k \in {"raise", "notext", "blank", "garbage", "nondict"}}
    \cup {Service("doc", {"head", "body"}, Faqs(MinFaqs, "qa")),
          Service("doc", {"head", "body", "identifier", "extra"},
                  Faqs(MinFaqs - 1, "qa")),
          Service("doc", {"head"}, <<>>)}

\* one combination for each way the handler can go: what it never reads is
\* fixed (the second answer when no second call is made, the disk when
\* nothing is written)
GenerateCase(c) ==
    /\ \/ c.req.hero # TaglineCommaBrace
       \/ c.setup /\ c.disk /\ c.svc1 = Service("doc", {"head", "body"},
                                                Faqs(MinFaqs, "qa"))
    /\ (c.svc1.kind = "doc" /\ FaqsCount(c.svc1) < MinFaqs) \/ c.svc2 = c.svc1
    /\ c.setup \/ (c.svc1.kind = "raise" /\ c.disk)
    /\ c.disk \/ (c.svc1.kind = "doc" /\ c.svc2.kind # "nondict")
    /\ \/ ~c.req.has_data /\ ~IdentifierGiven(c.req.identifier)
       \/ c.req.identifier.has_handle /\ c.req.identifier.has_tags
       \/ c.setup /\ c.disk /\ c.svc1 = Service("doc", {"head", "body"},
                                                Faqs(MinFaqs, "qa"))

GenerateCases ==
    {c \in [req : GenerateInputs, setup : BOOLEAN, svc1 : ServiceInputs,
            svc2 : ServiceInputs, disk : BOOLEAN] : GenerateCase(c)}

\* the requests; none of them touches the text-level study of
\* clean_json_response below (the service's answer is a Service kind here)
Upload ==
    /\ \/ \E vols \in UploadInputs : upload_file(TRUE, vols)
       \/ upload_file(FALSE, <<>>)
    /\ UNCHANGED aside
Filter ==
    /\ \E min_volume \in MinVolumes : filter_keywords(min_volume)
    /\ UNCHANGED aside
UpdateTags ==
    /\ \E updates \in UpdateInputs : update_tags(updates)
    /\ UNCHANGED aside
Remove ==
    /\ \E keyword_id \in RemoveInputs : remove_keyword(keyword_id)
    /\ UNCHANGED aside
Reorder ==
    /\ \E new_order \in ReorderInputs : reorder_keywords(new_order)
    /\ UNCHANGED aside
UpdateData ==
    /\ \E new_data \in DataInputs : update_data(new_data)
    /\ UNCHANGED aside
Download ==
    /\ \E req \in DownloadInputs : download_json(req)
    /\ UNCHANGED aside
Generate ==
    /\ \E c \in GenerateCases :
          generate_content(c.req, c.setup, c.svc1, c.svc2, c.disk)
    /\ UNCHANGED aside

\* the record-model requests alone
NextRecords ==
    \/ Upload
    \/ Filter
    \/ UpdateTags
    \/ Remove
    \/ Reorder
    \/ UpdateData

SpecRecords == Init /\ [][NextRecords]_vars

\* the requests that work on an ingested collection
NextIngested ==
    \/ Upload
    \/ Filter
    \/ UpdateTags
    \/ Remove
    \/ Reorder

SpecIngested == Init /\ [][NextIngested]_vars

\* uploads, tag updates and the two requests that serve a document
NextServe ==
    \/ Upload
    \/ UpdateTags
    \/ Download
    \/ Generate

SpecServe == Init /\ [][NextServe]_vars

\* uploads and generate requests alone
NextGenerate ==
    \/ Upload
    \/ Generate

SpecGenerate == Init /\ [][NextGenerate]_vars

Next ==
    \/ Upload
    \/ Filter
    \/ UpdateTags
    \/ Remove
    \/ Reorder
    \/ UpdateData
    \/ Download
    \/ Generate

Spec == Init /\ [][Next]_vars

----------------------------------------------------------------------------
(* The hierarchy builder on the flat lists /update_data can install *)

\* the dict at 0-based position i: the server checks no key, so any id, tag,
\* order and parent_id; the text is the position's own
FlatKeywords(i) ==
    [id : 0..MaxFlatId, keyword : {i}, volume : {0}, tag : Tags,
     order : 0..MaxFlatOrder, parent_id : {NoneVal} \cup 0..MaxFlatParent]

RECURSIVE FlatLists(_)
FlatLists(n) ==
    IF n = 0 THEN {<<>>}
    ELSE {Append(l, kw) : l \in FlatLists(n - 1), kw \in FlatKeywords(n - 1)}

\* the non-empty lists of at most n dicts
FlatInputs(n) == UNION {FlatLists(k) : k \in 1..n}

\* the state after /update_data has installed a flat list
InitBuild ==
    \E new_data \in FlatInputs(MaxFlat) :
        /\ heap = [r \in 1..Len(new_data) |-> new_data[r]]
        /\ current_data = Loaded([r \in 1..Len(new_data) |-> r])
        /\ response = Ok("Data updated successfully", <<>>)
        /\ calls = 0
        /\ prompt = <<>>
        /\ request_identifier = NoIdentifier
        /\ written = <<>>
        /\ response_text = NoText
        /\ cleaned_result = NotCleaned
        /\ given_document = NoDocument
        /\ validated_document = NotValidated
        /\ given_fragments = NoFragments
        /\ extracted_schema = NotExtracted
        /\ in_flight = <<>>

\* a /download and a /generate_content of the current collection
CurrentDownload == [has_data |-> FALSE, data |-> <<>>, identifier |-> NoIdentifier]
CurrentGenerate ==
    [has_data |-> FALSE, data |-> <<>>, identifier |-> NoIdentifier,
     nested |-> FALSE, has_nested_identifier |-> FALSE,
     nested_identifier |-> NoIdentifier, is_list |-> TRUE,
     hero |-> NoTagline, images |-> NoImages]

DownloadCurrent ==
    /\ download_json(CurrentDownload)
    /\ UNCHANGED aside
GenerateCurrent ==
    /\ \E svc \in {Service("raise", {}, <<>>),
                   Service("doc", {"head", "body"}, Faqs(MinFaqs, "qa"))} :
          generate_content(CurrentGenerate, TRUE, svc, svc, TRUE)
    /\ UNCHANGED aside

NextBuild ==
    \/ DownloadCurrent
    \/ GenerateCurrent

SpecBuild == InitBuild /\ [][NextBuild]_vars

----------------------------------------------------------------------------
(* validate_handle on the handles a request can carry *)

\* a letter, a capital, a digit, the hyphen, white space and another character
HandleAlphabet == {"a", "A", "1", "-", " ", "!"}

\* the raw values of the 'handle' key: a value that is no string, every
\* string over the alphabet up to the bound, and three handles by name
NailArt == <<"n", "a", "i", "l", "-", "a", "r", "t">>
BadHyphens == <<"-", "-", "b", "a", "d", "-">>
NailArtShouted == <<"N", "a", "i", "l", " ", "A", "r", "t", "!", "!">>
HandleInputs(n) ==
    {NonStr} \cup {StrVal(s) : s \in {NailArt, BadHyphens, NailArtShouted}}
    \cup {StrVal(s) : s \in SeqsOf(HandleAlphabet, 0, n)}

\* a collection is loaded and a /download arrives whose body has the data
\* and an identifier with a handle
InitHandle ==
    /\ heap = <<NewKeyword(0, 0)>>
    /\ current_data = Loaded(<<1>>)
    /\ \E raw \in HandleInputs(MaxHandleLen) :
          request_identifier = [NoIdentifier EXCEPT !.has_handle = TRUE, !.handle = raw]
    /\ response = Ok("Successfully loaded", <<NewKeyword(0, 0)>>)
    /\ calls = 0
    /\ prompt = <<>>
    /\ written = <<>>
    /\ response_text = NoText
    /\ cleaned_result = NotCleaned
    /\ given_document = NoDocument
    /\ validated_document = NotValidated
    /\ given_fragments = NoFragments
    /\ extracted_schema = NotExtracted
    /\ in_flight = <<>>

DownloadWithHandle ==
    /\ download_json([has_data |-> TRUE, data |-> RequestData,
                      identifier |-> request_identifier])
    /\ UNCHANGED aside

SpecHandle == InitHandle /\ [][DownloadWithHandle]_vars

----------------------------------------------------------------------------
(* validate_tags on the tags a request can carry *)

\* a letter, a capital, a digit, the comma, white space and another character
TagsAlphabet == {"a", "B", "1", ",", " ", "!"}

\* the raw values of the 'tags' key: a value that is no string, every string
\* over the alphabet up to the bound, and one list of tags by name
ThreeTags == <<"a", ",", " ", "b", ",", " ", "c">>
TagsInputs(n) ==
    {NonStr, StrVal(ThreeTags)} \cup {StrVal(s) : s \in SeqsOf(TagsAlphabet, 0, n)}

\* the identifiers with a 'tags' key: without a 'handle' key, or with a handle
\* that validates
TagsIdentifiers(n) ==
    {[has_handle |-> FALSE, handle |-> NonStr, has_tags |-> TRUE, tags |-> t] :
        t \in TagsInputs(n)}
    \cup {[has_handle |-> TRUE, handle |-> StrVal(h), has_tags |-> TRUE, tags |-> t] :
            h \in {<<"a">>, <<"A", " ", "1">>, NailArt}, t \in TagsInputs(n)}

\* a collection is loaded and a /download arrives whose body has the data
\* and an identifier with tags
InitTags ==
    /\ heap = <<NewKeyword(0, 0)>>
    /\ current_data = Loaded(<<1>>)
    /\ request_identifier \in TagsIdentifiers(MaxTagsLen)
    /\ response = Ok("Successfully loaded", <<NewKeyword(0, 0)>>)
    /\ calls = 0
    /\ prompt = <<>>
    /\ written = <<>>
    /\ response_text = NoText
    /\ cleaned_result = NotCleaned
    /\ given_document = NoDocument
    /\ validated_document = NotValidated
    /\ given_fragments = NoFragments
    /\ extracted_schema = NotExtracted
    /\ in_flight = <<>>

SpecTags == InitTags /\ [][DownloadWithHandle]_vars

----------------------------------------------------------------------------
(* clean_json_response on the texts the service can answer with *)

\* {"a":1}
DocOneKey ==
    <<"{", "\"", "a", "\"", ":", "1", "}">>

\* {"a":[1,2]}
DocList ==
    <<"{", "\"", "a", "\"", ":", "[", "1", ",", "2", "]", "}">>

\* {"a":1,"b":2}
DocTwoKeys ==
    <<"{", "\"", "a", "\"", ":", "1", ",", "\"", "b", "\"", ":", "2",
      "}">>

\* {"a":{"b":1}}
DocNested ==
    <<"{", "\"", "a", "\"", ":", "{", "\"", "b", "\"", ":", "1", "}",
      "}">>

\* {"a":[1,"b"]}
DocListOfStrings ==
    <<"{", "\"", "a", "\"", ":", "[", "1", ",", "\"", "b", "\"", "]",
      "}">>

\* {"a":"b,"}
DocCommaInString ==
    <<"{", "\"", "a", "\"", ":", "\"", "b", ",", "\"", "}">>

\* garbage {"a":[1,2],} trailing$$$
SpecExampleGarbage ==
    <<"g", "a", "r", "b", "a", "g", "e", " ", "{", "\"", "a", "\"", ":",
      "[", "1", ",", "2", "]", ",", "}", " ", "t", "r", "a", "i", "l",
      "i", "n", "g", "$", "$", "$">>

\* the documents the service was asked for: objects with one or more keys
\* that hold numbers, strings, lists and objects
Documents == {DocOneKey, DocList, DocTwoKeys, DocNested, DocListOfStrings}

\* the closing braces and brackets of a document a trailing comma can stand
\* before: those outside strings that close something non-empty
TrailingSites(doc) ==
    {i \in 2..Len(doc) :
        /\ doc[i] \in {"}", "]"}
        /\ doc[i - 1] \notin {"{", "[", ","}
        /\ Cardinality({j \in 1..(i - 1) : doc[j] = "\""}) % 2 = 0}

\* the document with `comma` put before the closers at `sites`
RECURSIVE WithTrailingCommas(_, _, _, _)
WithTrailingCommas(doc, sites, comma, i) ==
    IF i > Len(doc) THEN <<>>
    ELSE (IF i \in sites THEN comma ELSE <<>>) \o <<doc[i]>>
         \o WithTrailingCommas(doc, sites, comma, i + 1)

\* text without braces before and after the document
GarbageBefore == {<<>>, <<"g", " ">>}
GarbageAfter == {<<>>, <<" ", "g", "$">>, <<"'">>}

\* the document damaged by trailing commas and by garbage around it, and by
\* nothing else
Damaged(doc) ==
    {before \o WithTrailingCommas(doc, sites, comma, 1) \o after :
        before \in GarbageBefore, after \in GarbageAfter,
        sites \in SUBSET TrailingSites(doc), comma \in {<<",">>, <<",", " ">>}}

\* the pieces arbitrary answers are made of: the structural characters, a
\* string, an open quote, a number, white space and a stray character
TextTokens ==
    {<<"{">>, <<"}">>, <<"[">>, <<"]">>, <<":">>, <<",">>, <<"\"", "a", "\"">>,
     <<"\"">>, <<"1">>, <<" ">>, <<"$">>}

RECURSIVE Flatten(_)
Flatten(tokens) ==
    IF tokens = <<>> THEN <<>> ELSE Head(tokens) \o Flatten(Tail(tokens))

\* the answers: a value that is no string, every text of at most n pieces,
\* the damaged documents, a document with a comma inside a string behind
\* garbage, and the example of the specification
TextInputs(n) ==
    {NonStr}
    \cup {StrVal(Flatten(tokens)) : tokens \in SeqsOf(TextTokens, 0, n)}
    \cup {StrVal(s) : s \in UNION {Damaged(doc) : doc \in Documents}}
    \cup {StrVal(before \o DocCommaInString) : before \in GarbageBefore}
    \cup {StrVal(SpecExampleGarbage)}

\* an answer has arrived and no copy of clean_json_response has run on it
InitClean ==
    /\ heap = <<>>
    /\ current_data = NoData
    /\ response = NoResponse
    /\ calls = 0
    /\ prompt = <<>>
    /\ request_identifier = NoIdentifier
    /\ written = <<>>
    /\ response_text \in TextInputs(MaxTextTokens)
    /\ cleaned_result = NotCleaned
    /\ given_document = NoDocument
    /\ validated_document = NotValidated
    /\ given_fragments = NoFragments
    /\ extracted_schema = NotExtracted
    /\ in_flight = <<>>

NextClean ==
    \/ CleanInApp
    \/ CleanInGenerator

SpecClean == InitClean /\ [][NextClean]_vars

----------------------------------------------------------------------------
(* validate_and_fix_json on the documents generate_content assembles *)

\* the characters of the strings in a document: a letter, the comma, white
\* space and the closing brace and bracket
StringAlphabet == {"b", ",", " ", "}", "]"}

\* {"a":string}, {string:1} and {"a":[string]}
DocWithValue(text) == <<"{", "\"", "a", "\"", ":">> \o Quote(text) \o <<"}">>
DocWithKey(text) == <<"{">> \o Quote(text) \o <<":", "1", "}">>
DocWithElement(text) ==
    <<"{", "\"", "a", "\"", ":", "[">> \o Quote(text) \o <<"]", "}">>

\* the well-formed documents: those of the service, documents with every
\* string of at most n characters as a value, as a key and in a list, and
\* the small values other than strings the pieces of TextTokens spell
ValidDocuments(n) ==
    Documents \cup {DocCommaInString}
    \cup UNION {{DocWithValue(t), DocWithKey(t), DocWithElement(t)} :
                   t \in SeqsOf(StringAlphabet, 0, n)}
    \cup {Flatten(tokens) : tokens \in
            {k \in SeqsOf(TextTokens \ {<<" ">>}, 1, n) :
                Parses(Flatten(k)) /\ Flatten(k)[1] # "\""}}

\* what validate_and_fix_json is given: a parsed document, or a str
ValidateInputs(n) ==
    {Parsed(doc) : doc \in ValidDocuments(n)}
    \cup {StrVal(DocOneKey), StrVal(DocWithValue(<<",", "}">>)), StrVal(<<"g">>)}

\* a document is at hand and validate_and_fix_json has not run on it
InitValidate ==
    /\ heap = <<>>
    /\ current_data = NoData
    /\ response = NoResponse
    /\ calls = 0
    /\ prompt = <<>>
    /\ request_identifier = NoIdentifier
    /\ written = <<>>
    /\ response_text = NoText
    /\ cleaned_result = NotCleaned
    /\ given_document \in ValidateInputs(MaxStringLen)
    /\ validated_document = NotValidated
    /\ given_fragments = NoFragments
    /\ extracted_schema = NotExtracted
    /\ in_flight = <<>>

SpecValidate == InitValidate /\ [][ValidateDocument]_vars

----------------------------------------------------------------------------
(* generate_faq_schema on lists of fragments *)

\* the pieces fragments are made of: the tags of the two elements, another
\* tag, a character of text and a blank
FragmentTokens ==
    {<<"<", "h", "2", ">">>, <<"<", "/", "h", "2", ">">>, <<"<", "p", ">">>,
     <<"<", "/", "p", ">">>, <<"<", "b", ">">>, <<"Q">>, <<" ">>}

\* the two fragments of the example of the specification
SpecExampleFaq ==
    <<"<", "h", "2", ">", "Q", "1", "<", "/", "h", "2", ">", "<", "p", ">",
      "A", "1", "<", "/", "p", ">">>
SpecExampleNoAnswer ==
    <<"<", "h", "2", ">", "Q", "2", "<", "/", "h", "2", ">">>
\* upper-case tags, an attribute, a line break between the elements and
\* a tag inside the answer
FaqWithAttributes ==
    <<"<", "H", "2", " ", "i", "d", "=", "\"", "x", "\"", ">", "Q", "3",
      "<", "/", "H", "2", ">", "\n", "<", "P", ">", "A", " ", "<", "b", ">",
      "3", "<", "/", "b", ">", "<", "/", "P", ">">>
\* white space around the elements and their texts
FaqWithSpaces ==
    <<" ", "<", "h", "2", ">", " ", "Q", " ", "4", " ", "<", "/", "h", "2",
      ">", " ", "<", "p", ">", " ", "A", " ", "4", " ", "<", "/", "p", ">",
      " ">>
\* an answer that is a tag alone
FaqAnswerOfTags ==
    <<"<", "h", "2", ">", "Q", "5", "<", "/", "h", "2", ">", "<", "p", ">",
      " ", "<", "b", "r", ">", " ", "<", "/", "p", ">">>

\* a fragment that is no str, the empty str and the fragments above
NamedFragments ==
    {NonStr, StrVal(<<>>), StrVal(SpecExampleFaq), StrVal(SpecExampleNoAnswer),
     StrVal(FaqWithAttributes), StrVal(FaqWithSpaces), StrVal(FaqAnswerOfTags)}

\* what generate_faq_schema is called with: no list, the lists of at most
\* two of the fragments above, and the lists of one fragment of at most n
\* pieces
FragmentInputs(n) ==
    {NotAList}
    \cup {Fragments(items) : items \in SeqsOf(NamedFragments, 0, 2)}
    \cup {Fragments(<<StrVal(Flatten(tokens))>>) :
             tokens \in SeqsOf(FragmentTokens, 0, n)}

\* a list of fragments has arrived and generate_faq_schema has not run on it
InitFaq ==
    /\ heap = <<>>
    /\ current_data = NoData
    /\ response = NoResponse
    /\ calls = 0
    /\ prompt = <<>>
    /\ request_identifier = NoIdentifier
    /\ written = <<>>
    /\ response_text = NoText
    /\ cleaned_result = NotCleaned
    /\ given_document = NoDocument
    /\ validated_document = NotValidated
    /\ given_fragments \in FragmentInputs(MaxFragmentTokens)
    /\ extracted_schema = NotExtracted
    /\ in_flight = <<>>

SpecFaq == InitFaq /\ [][ExtractSchema]_vars

----------------------------------------------------------------------------
(* Requests that run side by side: current_data is a global without a lock *)

\* the body of a /remove_keyword and of a /reorder request
Removal(keyword_id) ==
    [kind |-> "remove", keyword_id |-> keyword_id, new_order |-> <<>>]
Reordering(new_order) ==
    [kind |-> "reorder", keyword_id |-> NoneVal, new_order |-> new_order]
RaceInputs ==
    {Removal(keyword_id) : keyword_id \in RemoveInputs}
    \cup {Reordering(new_order) : new_order \in ReorderInputs}

\* a request in flight: its body, the list it has read from current_data
\* and whether it has still to assign
InFlight(request, seen, pc) == [request |-> request, seen |-> seen, pc |-> pc]

\* a request arrives and reads the global: 'if current_data is None' and
\* the iteration over current_data of line 487 (remove_keyword), of line 506
\* (reorder_keywords); with no data it answers at once
ReadCollection(request) ==
    /\ Len(in_flight) < MaxInFlight
    /\ UNCHANGED <<heap, current_data>>
    /\ IF current_data.isNone
       THEN /\ in_flight' = Append(in_flight, InFlight(request, <<>>, "done"))
            /\ calls' = 0
            /\ prompt' = <<>>
            /\ request_identifier' = NoIdentifier
            /\ written' = <<>>
            /\ response' = Err(400, "No data loaded")
       ELSE /\ in_flight' = Append(in_flight,
                                   InFlight(request, current_data.list, "assign"))
            /\ UNCHANGED <<request_identifier, response, calls, prompt, written>>
    /\ UNCHANGED <<cleaning, validating, extracting>>

\* computes from the list that is current at the assignment
AssignedFromCurrent(h, flight) ==
    IF flight.request.kind = "remove"
    THEN LET l2 == RemoveList(h, current_data.list, flight.request.keyword_id)
         IN  [h |-> EnumerateOrder(h, l2, 1), l |-> l2]
    ELSE ReorderLoop(h, current_data.list, flight.request.new_order, 1,
                     [h |-> h, l |-> <<>>])

\* what the request assigns to current_data, and the dicts after its loop
\* over the orders: both are computed from the list the request has read
Assigned(h, flight) ==
    IF flight.request.kind = "remove"
    THEN LET l2 == RemoveList(h, flight.seen, flight.request.keyword_id)
         IN  [h |-> EnumerateOrder(h, l2, 1), l |-> l2]
    ELSE ReorderLoop(h, flight.seen, flight.request.new_order, 1,
                     [h |-> h, l |-> <<>>])

\* the request assigns the global (lines 487-492, lines 509-515) and
\* answers; the dicts stay, another request in flight may refer to them
AssignCollection(k) ==
    /\ k \in DOMAIN in_flight
    /\ in_flight[k].pc = "assign"
    /\ LET res == Assigned(heap, in_flight[k])
       IN  /\ current_data' = Loaded(res.l)
           /\ heap' = res.h
    /\ in_flight' = [in_flight EXCEPT ![k].pc = "done"]
    /\ calls' = 0
    /\ prompt' = <<>>
    /\ request_identifier' = NoIdentifier
    /\ written' = <<>>
    /\ response' = Ok(IF in_flight[k].request.kind = "remove"
                      THEN "Keyword removed successfully"
                      ELSE "Keywords reordered successfully", <<>>)
    /\ UNCHANGED <<cleaning, validating, extracting>>

\* the state after an upload, or before any
InitRace ==
    /\ \/ /\ heap = <<>>
          /\ current_data = NoData
          /\ response = NoResponse
       \/ \E vols \in UploadInputs :
             /\ heap = [r \in 1..Len(vols) |-> NewKeyword(r - 1, vols[r])]
             /\ current_data = Loaded([r \in 1..Len(vols) |-> r])
             /\ response = Ok("Successfully loaded",
                              [r \in 1..Len(vols) |-> NewKeyword(r - 1, vols[r])])
    /\ calls = 0
    /\ prompt = <<>>
    /\ request_identifier = NoIdentifier
    /\ written = <<>>
    /\ response_text = NoText
    /\ cleaned_result = NotCleaned
    /\ given_document = NoDocument
    /\ validated_document = NotValidated
    /\ given_fragments = NoFragments
    /\ extracted_schema = NotExtracted
    /\ in_flight = <<>>

Arrive == \E request \in RaceInputs : ReadCollection(request)
Assign == \E k \in 1..MaxInFlight : AssignCollection(k)

NextRace ==
    \/ Arrive
    \/ Assign

SpecRace == InitRace /\ [][NextRace]_vars

----------------------------------------------------------------------------
(* Claims about the record model *)

\* the ids of the dicts of a list, in list order
IdsOf(h, l) == [i \in DOMAIN l |-> h[l[i]].id]

\* the loaded list, before and after a step
Before == current_data.list
After == current_data'.list

\* C1: after remove(id) the survivors keep their previous relative sequence,
\* no record with another id is dropped, and the record at list position i
\* has order i (0-based), so the orders are 0..N-1.
C1_RemoveRepacksOrder ==
    [][\A keyword_id \in RemoveInputs :
          (~current_data.isNone /\ remove_keyword(keyword_id)) =>
              /\ After = SelectSeq(Before, LAMBDA r : heap[r].id # keyword_id)
              /\ \A i \in DOMAIN After : heap'[After[i]].order = i - 1]_vars

\* C1 where no dict stands at two positions of the list (what it says of a
\* collection whose records are distinct)
Distinct(l) == \A i, j \in DOMAIN l : l[i] = l[j] => i = j
C1_RemoveRepacksDistinct ==
    [][\A keyword_id \in RemoveInputs :
          (~current_data.isNone /\ Distinct(Before) /\ remove_keyword(keyword_id)) =>
              /\ After = SelectSeq(Before, LAMBDA r : heap[r].id # keyword_id)
              /\ \A i \in DOMAIN After : heap'[After[i]].order = i - 1]_vars

\* C2: after reorder(newIdOrder) the collection has as many records as
\* newIdOrder has entries whose id exists in the collection, the records are
\* records of the collection and stand in the sequence of their ids in
\* newIdOrder, a record whose id newIdOrder does not name is dropped, and the
\* request succeeds.
C2_ReorderFollowsIds ==
    [][\A new_order \in ReorderInputs :
          (~current_data.isNone /\ reorder_keywords(new_order)) =>
              LET known == {heap[r].id : r \in Range(Before)}
                  valid == SelectSeq(new_order, LAMBDA k : k \in known)
              IN  /\ Len(After) = Cardinality({i \in DOMAIN new_order :
                                                  new_order[i] \in known})
                  /\ IdsOf(heap', After) = valid
                  /\ \A i \in DOMAIN After :
                        After[i] \in Range(Before) /\ heap[After[i]].id = valid[i]
                  /\ \A r \in Range(Before) :
                        heap[r].id \notin Range(new_order) => r \notin Range(After)
                  /\ response'.status = 200]_vars

\* a reorder has put the record with id 1 in front of the record with id 0
C2_Witness ==
    /\ response.message = "Keywords reordered successfully"
    /\ ~current_data.isNone
    /\ IdsOf(heap, current_data.list) = <<1, 0>>

\* C3: in every state reached from an ingested collection by tagUpdate,
\* remove, reorder and filter requests, no two records of the collection
\* have the same id, and no request changes the id of a record.
C3_IdsUniqueAndFixed ==
    [][/\ \A i, j \in DOMAIN After : heap'[After[i]].id = heap'[After[j]].id => i = j
       /\ (\/ \E m \in MinVolumes : filter_keywords(m)
           \/ \E u \in UpdateInputs : update_tags(u)
           \/ \E k \in RemoveInputs : remove_keyword(k)
           \/ \E o \in ReorderInputs : reorder_keywords(o))
          => \A r \in DOMAIN heap \cap DOMAIN heap' : heap'[r].id = heap[r].id]_vars

\* C4: tagUpdate(id, newRole) on a loaded collection succeeds, leaves the
\* list as it is, and writes nothing but the role of the first record with
\* that id; with no such record it writes nothing.
C4_TagUpdateFrame ==
    [][\A u \in [id : Ids \cup {NoneVal}, tag : Tags] :
          (~current_data.isNone /\ update_tags(<<u>>)) =>
              LET hits == {i \in DOMAIN Before : heap[Before[i]].id = u.id}
                  first == CHOOSE i \in hits : \A j \in hits : i <= j
              IN  /\ response'.status = 200
                  /\ current_data' = current_data
                  /\ DOMAIN heap' = DOMAIN heap
                  /\ hits = {} => heap' = heap
                  /\ hits # {} =>
                        /\ heap'[Before[first]].tag = u.tag
                        /\ \A r \in DOMAIN heap :
                              /\ r # Before[first] => heap'[r] = heap[r]
                              /\ heap'[r].id = heap[r].id
                              /\ heap'[r].keyword = heap[r].keyword
                              /\ heap'[r].order = heap[r].order
                              /\ heap'[r].parent_id = heap[r].parent_id
                              /\ heap'[r].volume = heap[r].volume]_vars

\* a tag was set on the second record of a list of two, the first is untagged
C4_Witness ==
    /\ response.message = "Tags updated successfully"
    /\ ~current_data.isNone
    /\ Len(current_data.list) = 2
    /\ heap[current_data.list[1]].tag = ""
    /\ heap[current_data.list[2]].tag = "H2"

\* C5: filterByVolumeFloor(min) returns the records of the collection whose
\* volume is >= min, all of them and no other, in their sequence, and the
\* record at position i of the returned list has order i (0-based).
C5_FilterReturnsResequenced ==
    [][\A min_volume \in MinVolumes :
          (~current_data.isNone /\ filter_keywords(min_volume)) =>
              LET keep == SelectSeq(Before, LAMBDA r : heap[r].volume >= min_volume)
              IN  /\ Len(response'.data) = Len(keep)
                  /\ \A i \in DOMAIN keep :
                        response'.data[i] = [heap[keep[i]] EXCEPT !.order = i - 1]]_vars

\* C5 where no dict stands at two positions of the list
C5_FilterReturnsDistinct ==
    [][\A min_volume \in MinVolumes :
          (~current_data.isNone /\ Distinct(Before) /\ filter_keywords(min_volume)) =>
              LET keep == SelectSeq(Before, LAMBDA r : heap[r].volume >= min_volume)
              IN  /\ Len(response'.data) = Len(keep)
                  /\ \A i \in DOMAIN keep :
                        response'.data[i] = [heap[keep[i]] EXCEPT !.order = i - 1]]_vars

\* one of the four mutating requests is served on a loaded collection
MutatingStep ==
    /\ ~current_data.isNone
    /\ \/ \E m \in MinVolumes : filter_keywords(m)
       \/ \E u \in UpdateInputs : update_tags(u)
       \/ \E k \in RemoveInputs : remove_keyword(k)
       \/ \E o \in ReorderInputs : reorder_keywords(o)

\* C6: the mutating operations are copy-on-write: the role and order values
\* of the records of the collection as it was before the operation are not
\* altered by it.
C6_SnapshotUnaltered ==
    [][MutatingStep =>
          \A r \in Range(Before) \cap DOMAIN heap' :
              heap'[r].tag = heap[r].tag /\ heap'[r].order = heap[r].order]_vars

\* C6 as the code has it: no operation copies a record.  tagUpdate and filter
\* leave the current list in place, remove and reorder install a list of the
\* same record objects; tagUpdate writes nothing but 'tag' and the other
\* three nothing but 'order', into those shared records.
C6_SharedRecordsWrittenInPlace ==
    [][/\ \A m \in MinVolumes :
            (~current_data.isNone /\ filter_keywords(m)) =>
                /\ current_data' = current_data
                /\ \A r \in DOMAIN heap :
                      heap'[r] = [heap[r] EXCEPT !.order = heap'[r].order]
       /\ \A u \in UpdateInputs :
            (~current_data.isNone /\ update_tags(u)) =>
                /\ current_data' = current_data
                /\ \A r \in DOMAIN heap :
                      heap'[r] = [heap[r] EXCEPT !.tag = heap'[r].tag]
       /\ (/\ ~current_data.isNone
           /\ \/ \E k \in RemoveInputs : remove_keyword(k)
              \/ \E o \in ReorderInputs : reorder_keywords(o)) =>
                /\ Range(After) \subseteq Range(Before)
                /\ \A r \in DOMAIN heap' :
                      heap'[r] = [heap[r] EXCEPT !.order = heap'[r].order]]_vars

\* a filter returned one record of two and numbered it 0 in place: the
\* current collection still has both records, and both now have order 0
C6_Witness ==
    /\ response.status = 200
    /\ response.message = ""
    /\ Len(response.data) = 1
    /\ ~current_data.isNone
    /\ Len(current_data.list) = 2
    /\ heap[current_data.list[1]].order = 0
    /\ heap[current_data.list[2]].order = 0
    /\ current_data.list[1] # current_data.list[2]

----------------------------------------------------------------------------
(* Claims about requests without a collection *)

\* C7: while no collection is current, filter, tagUpdate, remove, reorder,
\* download and generate answer 400 'No data loaded', leave the collection
\* absent, call the generation service not once and write no file; and a
\* replace-collection request with an empty list answers with an error and
\* leaves the collection as it is.
C7_NoDataRefused ==
    [][/\ (current_data.isNone /\
           (Filter \/ UpdateTags \/ Remove \/ Reorder \/ Download \/ Generate)) =>
              /\ response' = Err(400, "No data loaded")
              /\ current_data'.isNone
              /\ heap' = heap
              /\ calls' = 0
              /\ prompt' = <<>>
              /\ written' = <<>>
       /\ update_data(<<>>) =>
              /\ response'.status = 400
              /\ response'.error # ""
              /\ current_data' = current_data
              /\ heap' = heap]_vars

\* a request was refused for want of a collection
C7_Witness ==
    /\ current_data.isNone
    /\ response = Err(400, "No data loaded")

----------------------------------------------------------------------------
(* Claims about the hierarchy builder *)

\* the positions of the flat list with a tag
WithTag(flat, tag) == {p \in DOMAIN flat : flat[p].tag = tag}

\* the order of the dict a text of the output comes from (texts are distinct
\* from dict to dict)
OrderOf(flat, text) == flat[CHOOSE p \in DOMAIN flat : flat[p].keyword = text].order

\* the sub-section entries of a body, as <<section index, index>> pairs
SubEntries(body) ==
    UNION {{<<i, j>> : j \in DOMAIN body.h2_keywords[i].h3_keywords} :
              i \in DOMAIN body.h2_keywords}

\* the texts of all entries of a body
Texts(body) ==
    {body.h1_keywords[i].keyword : i \in DOMAIN body.h1_keywords}
    \cup {body.h2_keywords[i].keyword : i \in DOMAIN body.h2_keywords}
    \cup {body.h2_keywords[e[1]].h3_keywords[e[2]].keyword : e \in SubEntries(body)}

\* the texts of a list of entries ascend by the order of their dicts
Ascending(flat, entries) ==
    \A a, b \in DOMAIN entries :
        a < b => OrderOf(flat, entries[a].keyword) <= OrderOf(flat, entries[b].keyword)

\* what C8 says of the body built from flat
SubSectionsNested(flat, body) ==
    /\ \A p \in WithTag(flat, "H3") :
          LET sections == {q \in WithTag(flat, "H2") : flat[q].id = flat[p].parent_id}
              places == {e \in SubEntries(body) :
                            body.h2_keywords[e[1]].h3_keywords[e[2]].keyword
                                = flat[p].keyword}
              others == {i \in DOMAIN body.h1_keywords :
                            body.h1_keywords[i].keyword = flat[p].keyword}
                        \cup {i \in DOMAIN body.h2_keywords :
                                  body.h2_keywords[i].keyword = flat[p].keyword}
          IN  /\ others = {}
              /\ IF sections = {} THEN places = {}
                 ELSE /\ Cardinality(places) = 1
                      /\ \A e \in places : \E q \in sections :
                            body.h2_keywords[e[1]].keyword = flat[q].keyword
    /\ \A i \in DOMAIN body.h2_keywords :
          Ascending(flat, body.h2_keywords[i].h3_keywords)

\* the flat list of the current collection and the bodies the latest request
\* built from it (no request of SpecBuild carries a list of its own)
CurrentFlat == Deref(heap, current_data.list)
BuiltBodies ==
    Range(prompt) \cup
    {written[i].body : i \in {j \in DOMAIN written : written[j].from["body"] = "built"}}

\* C8: in the body built from any flat list, a SubSection whose parent_id is
\* the id of a Section appears exactly once in the whole output, in that
\* Section's list, each such list ascends by order, and a SubSection whose
\* parent_id is unset or is no Section's id appears nowhere.
C8_SubSectionExactlyOnce ==
    \A body \in BuiltBodies : SubSectionsNested(CurrentFlat, body)

\* C8 for the flat lists in which no two Sections have the same id
C8_SubSectionOnceUnderDistinctSections ==
    \A body \in BuiltBodies :
        (\A p, q \in WithTag(CurrentFlat, "H2") :
            CurrentFlat[p].id = CurrentFlat[q].id => p = q)
        => SubSectionsNested(CurrentFlat, body)

\* what C9 says of the body built from flat
RolesListed(flat, body) ==
    /\ Len(body.h1_keywords) = Cardinality(WithTag(flat, "H1"))
    /\ \A p \in WithTag(flat, "H1") :
          \E i \in DOMAIN body.h1_keywords :
              body.h1_keywords[i] = [keyword |-> flat[p].keyword]
    /\ Ascending(flat, body.h1_keywords)
    /\ Len(body.h2_keywords) = Cardinality(WithTag(flat, "H2"))
    /\ \A p \in WithTag(flat, "H2") :
          \E i \in DOMAIN body.h2_keywords :
              body.h2_keywords[i].keyword = flat[p].keyword
    /\ \A i \in DOMAIN body.h2_keywords :
          /\ body.h2_keywords[i].paragraphs = <<>>
          /\ body.h2_keywords[i].bullets = <<>>
          /\ DOMAIN body.h2_keywords[i].h3_keywords
                = 1..Len(body.h2_keywords[i].h3_keywords)
    /\ Ascending(flat, body.h2_keywords)
    /\ \A p \in WithTag(flat, "") : flat[p].keyword \notin Texts(body)
    /\ \A text \in Texts(body) :
          \E p \in DOMAIN flat : flat[p].keyword = text /\ flat[p].tag # ""

\* C9: in the body built from a flat list, h1_keywords has exactly one entry
\* per Primary dict and h2_keywords exactly one entry per Section dict, each
\* list in ascending order, each Section entry with empty paragraphs and
\* bullets, and no entry of the body comes from an untagged dict.
C9_UntaggedExcluded ==
    \A body \in BuiltBodies : RolesListed(CurrentFlat, body)

\* a document was written for a list of an untagged dict, a Section without
\* sub-sections and two Primary dicts that stand against their order
C9_Witness ==
    /\ written # <<>>
    /\ written[1].from["body"] = "built"
    /\ WithTag(CurrentFlat, "") # {}
    /\ Len(written[1].body.h1_keywords) = 2
    /\ \E p, q \in WithTag(CurrentFlat, "H1") :
          /\ p < q
          /\ written[1].body.h1_keywords[1].keyword = CurrentFlat[q].keyword
          /\ written[1].body.h1_keywords[2].keyword = CurrentFlat[p].keyword

----------------------------------------------------------------------------
(* Claims about the identifier validators *)

\* the words of a string: its maximal runs of characters that are no white
\* space, as <<first, last>> index pairs
WordSpans(s) ==
    {w \in (DOMAIN s) \X (DOMAIN s) :
        /\ w[1] <= w[2]
        /\ \A i \in w[1]..w[2] : s[i] \notin SpaceChars
        /\ w[1] = 1 \/ s[w[1] - 1] \in SpaceChars
        /\ w[2] = Len(s) \/ s[w[2] + 1] \in SpaceChars}

\* the words from index `from` on, lowercased and joined by single hyphens:
\* the string trimmed, lowercased, each inner run of white space one hyphen
RECURSIVE HyphenJoined(_, _)
HyphenJoined(s, from) ==
    LET rest == {w \in WordSpans(s) : w[1] >= from}
        next == CHOOSE w \in rest : \A v \in rest : w[1] <= v[1]
        word == [i \in 1..(next[2] - next[1] + 1) |-> LowerChar(s[next[1] + i - 1])]
    IN  IF rest = {} THEN <<>>
        ELSE IF Cardinality(rest) = 1 THEN word
        ELSE word \o <<"-">> \o HyphenJoined(s, next[2] + 1)

\* the normal forms the claim accepts
WellFormedHandle(h) ==
    /\ h # <<>>
    /\ \A i \in DOMAIN h : h[i] \in LowerChars \cup DigitChars \cup {"-"}
    /\ h[1] # "-"
    /\ h[Len(h)] # "-"
    /\ \A i \in 1..(Len(h) - 1) : ~(h[i] = "-" /\ h[i + 1] = "-")

\* the handle as the request sent it, and whether the request has been served
RawHandle == request_identifier.handle
Served == response.message = "file" \/ response.error # ""

\* C10: validate_handle(raw) succeeds exactly when raw is a non-empty string
\* whose normalization (trimmed, lowercased, each inner white-space run one
\* hyphen) is non-empty, has only characters of [a-z0-9-], neither starts
\* nor ends with '-' and has no '--', and then returns the normalization;
\* "nail-art" gives "nail-art", "--bad-" and "Nail Art!!" fail.
C10_HandleAcceptedIffWellFormed ==
    LET result == validate_handle(RawHandle)
        accepted == /\ RawHandle.isStr
                    /\ RawHandle.s # <<>>
                    /\ WellFormedHandle(HyphenJoined(RawHandle.s, 1))
    IN  /\ result.ok <=> accepted
        /\ result.ok => result.value = HyphenJoined(RawHandle.s, 1)
        /\ Served =>
              /\ written # <<>> <=> accepted
              /\ accepted => written[1].identifier.handle
                                = StrVal(HyphenJoined(RawHandle.s, 1))
              /\ ~accepted => response = Err(400, "Invalid handle")
        /\ RawHandle = StrVal(NailArt) => result = Valid(NailArt)
        /\ RawHandle \in {StrVal(BadHyphens), StrVal(NailArtShouted)} => ~result.ok

\* a handle with capitals and white space around and inside was accepted and
\* written in its normal form
C10_Witness ==
    /\ RawHandle = StrVal(<<" ", "A", " ", "1">>)
    /\ written # <<>>
    /\ written[1].identifier.handle = StrVal(<<"a", "-", "1">>)

\* a handle was refused for its hyphens alone
C10_WitnessRefused ==
    /\ RawHandle = StrVal(BadHyphens)
    /\ response = Err(400, "Invalid handle")
    /\ written = <<>>

\* the tags as the request sent them, and the handle its tags are validated
\* against: the validated 'handle' of the identifier, '' when it has none
RawTags == request_identifier.tags
SyncHandle ==
    IF request_identifier.has_handle THEN validate_handle(RawHandle).value ELSE <<>>

\* a handle with each hyphen replaced by a space
HyphensAsSpaces(h) == [i \in DOMAIN h |-> IF h[i] = "-" THEN " " ELSE h[i]]

\* C11: for any tags value whatsoever, validate_tags(tags, handle) with a
\* handle supplied succeeds and returns the handle with its hyphens replaced
\* by spaces ("nail-art" gives "nail art"); the tags have no influence.
C11_HandleOverridesAnyTags ==
    SyncHandle # <<>> =>
        /\ validate_tags(RawTags, SyncHandle) = Valid(HyphensAsSpaces(SyncHandle))
        /\ Served =>
              /\ written # <<>>
              /\ written[1].identifier.tags = StrVal(HyphensAsSpaces(SyncHandle))

\* C11 for the tags that are a string with a character that is no white
\* space: these the handle overrides
C11_HandleOverridesNonBlankTags ==
    (/\ SyncHandle # <<>>
     /\ RawTags.isStr
     /\ \E i \in DOMAIN RawTags.s : RawTags.s[i] \notin SpaceChars) =>
        /\ validate_tags(RawTags, SyncHandle) = Valid(HyphensAsSpaces(SyncHandle))
        /\ Served =>
              /\ written # <<>>
              /\ written[1].identifier.tags = StrVal(HyphensAsSpaces(SyncHandle))

\* a string without the white space at its ends
Trimmed(s) ==
    LET inked == {i \in DOMAIN s : s[i] \notin SpaceChars}
        first == CHOOSE i \in inked : \A j \in inked : i <= j
        last == CHOOSE i \in inked : \A j \in inked : i >= j
    IN  IF inked = {} THEN <<>> ELSE [i \in 1..(last - first + 1) |-> s[first + i - 1]]

\* the tokens of a string: its maximal comma-free runs that have a character
\* that is no white space, as <<first, last>> index pairs
TokenSpans(s) ==
    {w \in (DOMAIN s) \X (DOMAIN s) :
        /\ w[1] <= w[2]
        /\ \A i \in w[1]..w[2] : s[i] # ","
        /\ \E i \in w[1]..w[2] : s[i] \notin SpaceChars
        /\ w[1] = 1 \/ s[w[1] - 1] = ","
        /\ w[2] = Len(s) \/ s[w[2] + 1] = ","}

\* the trimmed tokens from index `from` on, joined by ", "
RECURSIVE TokensJoined(_, _)
TokensJoined(s, from) ==
    LET rest == {w \in TokenSpans(s) : w[1] >= from}
        next == CHOOSE w \in rest : \A v \in rest : w[1] <= v[1]
        token == Trimmed([i \in 1..(next[2] - next[1] + 1) |-> s[next[1] + i - 1]])
    IN  IF rest = {} THEN <<>>
        ELSE IF Cardinality(rest) = 1 THEN token
        ELSE token \o <<",", " ">> \o TokensJoined(s, next[2] + 1)

\* C12: validate_tags(raw) without a handle fails when raw is empty after
\* trimming or no non-empty token remains after splitting on commas and
\* trimming, fails when a remaining token has a character that is no letter,
\* digit or white space, and else returns the remaining tokens in input
\* order joined by ", "; "a, b, c" gives "a, b, c".
C12_TagsWithoutHandle ==
    (~request_identifier.has_handle /\ RawTags.isStr) =>
        LET result == validate_tags(RawTags, <<>>)
            tokens == TokenSpans(RawTags.s)
            accepted ==
                /\ Trimmed(RawTags.s) # <<>>
                /\ tokens # {}
                /\ \A w \in tokens : \A i \in w[1]..w[2] :
                      RawTags.s[i] \in LowerChars \cup UpperChars \cup DigitChars
                                         \cup SpaceChars
        IN  /\ result.ok <=> accepted
            /\ accepted => result.value = TokensJoined(RawTags.s, 1)
            /\ Served =>
                  /\ written # <<>> <=> accepted
                  /\ accepted => written[1].identifier.tags
                                    = StrVal(TokensJoined(RawTags.s, 1))
                  /\ ~accepted => response = Err(400, "Invalid tags")
            /\ RawTags = StrVal(ThreeTags) => result = Valid(ThreeTags)

\* tags with white space in front, an empty token and a capital were
\* accepted without a handle and written as two tokens
C12_Witness ==
    /\ ~request_identifier.has_handle
    /\ RawTags = StrVal(<<" ", "a", ",", ",", "B">>)
    /\ written # <<>>
    /\ written[1].identifier.tags = StrVal(<<"a", ",", " ", "B">>)

----------------------------------------------------------------------------
(* Claims about generate_content *)

\* the /generate_content requests whose identifier, at the top of the body
\* or nested in 'data', has a handle or tags that fail validation
FailsValidation(req) ==
    \/ ~ValidateIdentifier(req.identifier).ok
    \/ req.nested /\ req.has_nested_identifier
       /\ ~ValidateIdentifier(req.nested_identifier).ok
InvalidIdentifierCases == {c \in GenerateCases : FailsValidation(c.req)}

\* C13: a generate request whose identifier has a handle or tags that fail
\* validation ends with a validation error, no call of the generation
\* service is made and nothing is persisted.
C13_InvalidIdentifierStopsGenerate ==
    [][\A c \in InvalidIdentifierCases :
          (~current_data.isNone
           /\ generate_content(c.req, c.setup, c.svc1, c.svc2, c.disk)) =>
              /\ response'.status = 400
              /\ response'.error \in {"Invalid handle", "Invalid tags"}
              /\ calls' = 0
              /\ prompt' = <<>>
              /\ written' = <<>>]_vars

\* C13 for the requests that carry the identifier beside 'data': only there
\* the handler reads it
C13_InvalidIdentifierBesideData ==
    [][(~current_data.isNone /\ ~ValidateIdentifier(request_identifier').ok) =>
          \A c \in InvalidIdentifierCases :
              (c.req.has_data
               /\ generate_content(c.req, c.setup, c.svc1, c.svc2, c.disk)) =>
                  /\ response'.status = 400
                  /\ response'.error \in {"Invalid handle", "Invalid tags"}
                  /\ calls' = 0
                  /\ prompt' = <<>>
                  /\ written' = <<>>]_vars

----------------------------------------------------------------------------
(* Claims about the repair of the answer text *)

\* the answer text, the span the search finds in it, and what the copy of
\* clean_json_response that ran returned
AnswerText == response_text.s
Span == SearchBraces(AnswerText)
Returned == cleaned_result.text
CleanReturned == response_text.isStr /\ cleaned_result.done /\ ~cleaned_result.raised

\* C14: a valid document damaged only by trailing commas before closing
\* braces or brackets and by garbage without braces around it comes back as
\* text that parses to the undamaged document.
C14_DamagedDocumentRepaired ==
    \A doc \in Documents :
        (CleanReturned /\ AnswerText \in Damaged(doc)) =>
            json_loads(Returned) = json_loads(doc)

\* a comma that separates two members or elements, the second of which
\* starts with a quote
SeparatorBeforeQuote(doc) ==
    \E i \in 1..Len(doc) :
        /\ doc[i] = ","
        /\ SkipChars(doc, RegexSpace, i + 1) <= Len(doc)
        /\ doc[SkipChars(doc, RegexSpace, i + 1)] = "\""

\* C14 for the documents in which no separator stands before a quote
C14_RepairedWhenNoSeparatorBeforeQuote ==
    \A doc \in Documents :
        (CleanReturned /\ AnswerText \in Damaged(doc) /\ ~SeparatorBeforeQuote(doc)) =>
            json_loads(Returned) = json_loads(doc)

\* the two examples of the specification came back repaired
C14_WitnessExamples ==
    \/ /\ AnswerText = WithTrailingCommas(DocOneKey, {Len(DocOneKey)}, <<",">>, 1)
       /\ cleaned_result = Cleaned("app", DocOneKey)
    \/ /\ AnswerText = SpecExampleGarbage
       /\ cleaned_result = Cleaned("app", DocList)

\* C15: the result of the repair is the failure value '' or text that
\* parses, and for a text that does not parse and has no '{' with a '}'
\* after it, it is the failure value.
C15_FailureOrParses ==
    CleanReturned =>
        /\ Returned = <<>> \/ Parses(Returned)
        /\ (~Parses(AnswerText) /\ ~Span.found) => Returned = <<>>

\* C15 for the copy of app.py alone
C15_AppFailureOrParses ==
    (CleanReturned /\ cleaned_result.by = "app") =>
        /\ Returned = <<>> \/ Parses(Returned)
        /\ (~Parses(AnswerText) /\ ~Span.found) => Returned = <<>>

\* the copy of gemini_content_generator.py returns text that parses, or its
\* argument as it came
C15_GeneratorParsesOrEchoes ==
    (CleanReturned /\ cleaned_result.by = "generator") =>
        Parses(Returned) \/ Returned = AnswerText

\* C16: when the text does not parse and the span from the first '{' to the
\* last '}' parses as it stands, that span comes back unmodified.
C16_ParsingSpanUnmodified ==
    (CleanReturned /\ ~Parses(AnswerText) /\ Span.found /\ Parses(Span.group)) =>
        Returned = Span.group

\* what the code does instead: the cleaned span comes back whenever it
\* parses, and the span as it stands only when the cleaned one does not
C16_CleanedSpanFirst ==
    (CleanReturned /\ ~Parses(AnswerText) /\ Span.found) =>
        /\ Parses(CleanExtracted(Span.group)) => Returned = CleanExtracted(Span.group)
        /\ (~Parses(CleanExtracted(Span.group)) /\ Parses(Span.group)) =>
              Returned = Span.group

----------------------------------------------------------------------------
(* Claims about the calls of the generation service *)

\* the first answer parsed to a document with fewer FAQs than the minimum
FirstIsDeficient(c) == c.svc1.kind = "doc" /\ Len(c.svc1.faqs) < MinFaqs
DeficientFirstCases == {c \in GenerateCases : FirstIsDeficient(c)}

\* C17: a generate request calls the service at most twice; the second call
\* is made exactly when the first answer parsed and its FAQ count is below
\* the minimum of 15, and no call follows it whatever the new count is.
C17_SecondCallIffDeficient ==
    [][\A c \in GenerateCases :
          generate_content(c.req, c.setup, c.svc1, c.svc2, c.disk) =>
              /\ calls' \in 0..2
              /\ calls' = 2 <=> (calls' >= 1 /\ FirstIsDeficient(c))]_vars

\* a second call was made and its answer, with fewer FAQs than the minimum
\* again, was written: no third call
C17_Witness ==
    /\ calls = 2
    /\ written # <<>>
    /\ Len(written[1].body.faqs_html) < MinFaqs

\* C18: when the regeneration answer parses to a document, the document
\* assembled and written is the regenerated one, also when it has fewer
\* FAQs than the minimum or than the original.
C18_RegeneratedReplacesOriginal ==
    [][\A c \in DeficientFirstCases :
          (/\ c.svc2.kind = "doc"
           /\ generate_content(c.req, c.setup, c.svc1, c.svc2, c.disk)
           /\ calls' = 2
           /\ c.disk) =>
              /\ response'.status = 200
              /\ written' # <<>>
              /\ written'[1].body.faqs_html = c.svc2.faqs
              /\ \A k \in {"head", "body"} :
                    k \in Range(written'[1].keys) <=> k \in c.svc2.keys]_vars

\* after a second call the written document has the minimum of FAQs: it is
\* the regenerated one, the original had fewer
C18_Witness ==
    /\ calls = 2
    /\ written # <<>>
    /\ Len(written[1].body.faqs_html) = MinFaqs

\* after a second call the written document has no body: a regenerated
\* answer without FAQs was carried on
C18_WitnessFewer ==
    /\ calls = 2
    /\ written # <<>>
    /\ written[1].body.faqs_html = <<>>
    /\ "body" \notin Range(written[1].keys)

\* C19: when the regeneration call raises, gives empty text or gives text
\* the repair cannot turn into a structured document, the original document
\* is carried forward and the request does not fail for it.
C19_FailedRegenerationKeepsOriginal ==
    [][\A c \in DeficientFirstCases :
          (/\ c.svc2.kind # "doc"
           /\ generate_content(c.req, c.setup, c.svc1, c.svc2, c.disk)
           /\ calls' = 2
           /\ c.disk) =>
              /\ response'.status = 200
              /\ written' # <<>>
              /\ written'[1].body.faqs_html = c.svc1.faqs]_vars

\* C19 for the regenerations that raise, have no text or no JSON in it
C19_UnparsedRegenerationKeepsOriginal ==
    [][\A c \in DeficientFirstCases :
          (/\ c.svc2.kind \in {"raise", "notext", "blank", "garbage"}
           /\ generate_content(c.req, c.setup, c.svc1, c.svc2, c.disk)
           /\ calls' = 2
           /\ c.disk) =>
              /\ response'.status = 200
              /\ written' # <<>>
              /\ written'[1].body.faqs_html = c.svc1.faqs]_vars

\* C20: when the first call of the service raises, the request ends with
\* the 'Failed to call' error, no second call is made and nothing is
\* written.
C20_FirstCallRaises ==
    [][\A c \in GenerateCases :
          (/\ c.svc1.kind = "raise"
           /\ generate_content(c.req, c.setup, c.svc1, c.svc2, c.disk)
           /\ calls' >= 1) =>
              /\ response' = Err(500, "Failed to call Gemini API")
              /\ calls' = 1
              /\ written' = <<>>]_vars

\* the first call raised
C20_Witness ==
    /\ response = Err(500, "Failed to call Gemini API")
    /\ calls = 1
    /\ prompt # <<>>
    /\ written = <<>>

----------------------------------------------------------------------------
(* Claims about the validation before the file is written *)

\* validate_and_fix_json has run on a parsed document
DocumentValidated == validated_document.done /\ ~given_document.isStr

\* C28: validate_and_fix_json is a pure check: for every well-formed
\* document, those with a comma followed by '}' or ']' in a string included,
\* it returns a document equal to the one it was given.
C28_ValidationReturnsDocument ==
    DocumentValidated => validated_document = Validated(given_document.s)

\* a comma that only white space separates from a '}' or a ']'
CommaBeforeCloser(s) ==
    \E i \in 1..Len(s) :
        /\ s[i] = ","
        /\ SkipChars(s, RegexSpace, i + 1) <= Len(s)
        /\ s[SkipChars(s, RegexSpace, i + 1)] \in {"}", "]"}

\* C28 for the documents without such a comma
C28_ReturnsDocumentWithoutCommaBeforeCloser ==
    (DocumentValidated /\ ~CommaBeforeCloser(given_document.s)) =>
        validated_document = Validated(given_document.s)

\* validate_and_fix_json returns None for no parsed document
C28_ParsedDocumentNeverNone ==
    DocumentValidated => ~validated_document.isNone


----------------------------------------------------------------------------
(* Claims about the write of the generated document *)

\* a document re-serialized, cleaned and re-parsed, as lines 305-324 do it
Reserialized(text) == json_loads(CleanDumped(Dumps(text, 1, 0, FALSE)))

PlaceOf(k) == CHOOSE i \in 1..Len(KeyOrder) : KeyOrder[i] = k

\* C22: the top-level keys of every document a download or a generate
\* request emits are keys of hero, head, body, images, script, identifier
\* and stand in that order, whatever keys the answer of the service has.
C22_KeysInFinalOrder ==
    written # <<>> =>
        LET keys == written[1].keys
        IN  /\ \A i \in 1..Len(keys) : keys[i] \in Range(KeyOrder)
            /\ \A i, j \in 1..Len(keys) :
                  i < j => PlaceOf(keys[i]) < PlaceOf(keys[j])

\* the answer with the keys head, body, identifier and extra (the one with
\* one FAQ less than the minimum) was assembled and written
C22_Witness ==
    /\ written # <<>>
    /\ response.status = 200
    /\ calls = 2
    /\ Len(written[1].body.faqs_html) = MinFaqs - 1
    /\ written[1].keys = KeyOrder

\* a download wrote head, body and script
C22_WitnessDownload ==
    /\ written # <<>>
    /\ response.message = "file"
    /\ written[1].keys = <<"head", "body", "script">>

----------------------------------------------------------------------------
(* Claims about the fields the service must not author *)

\* the keys among hero, images and identifier of the written document
\* whose value came from the answer of the service
AuthoredByService ==
    {k \in {"hero", "images", "identifier"} \cap Range(written[1].keys) :
        written[1].from[k] = "ai"}

\* C23: in a document a generate request persists, hero, images and
\* identifier are never values of the service's answer, also when the
\* caller supplied no identifier.
C23_CallerFieldsNotFromService ==
    (written # <<>> /\ response.message # "file") => AuthoredByService = {}

\* C23 for hero and images, which lines 929-938 always set
C23_HeroAndImagesSetByHandler ==
    (written # <<>> /\ response.message # "file") =>
        AuthoredByService \subseteq {"identifier"}

\* the identifier the caller supplied: the one inside a nested 'data' object
\* when there is one, else the one beside 'data'
SuppliedIdentifier(req) ==
    IF req.has_data /\ req.nested /\ req.has_nested_identifier
    THEN req.nested_identifier
    ELSE IF req.has_data THEN req.identifier ELSE NoIdentifier

\* C23 for the requests with an identifier: line 926 replaces the service's
C23_GivenIdentifierReplacesServices ==
    [][\A c \in GenerateCases :
          (/\ generate_content(c.req, c.setup, c.svc1, c.svc2, c.disk)
           /\ written' # <<>>
           /\ IdentifierGiven(written'[1].identifier)) =>
              /\ "identifier" \in Range(written'[1].keys)
              /\ written'[1].from["identifier"] = "caller"
              /\ ValidateIdentifier(SuppliedIdentifier(c.req)).ok
              /\ written'[1].identifier =
                    ValidateIdentifier(SuppliedIdentifier(c.req)).identifier]_vars

\* C23 for the value of the hero: the tagline written is the caller's
C23_HeroIsCallersHero ==
    [][\A c \in GenerateCases :
          (/\ generate_content(c.req, c.setup, c.svc1, c.svc2, c.disk)
           /\ written' # <<>>) => written'[1].hero = c.req.hero]_vars

----------------------------------------------------------------------------
(* Claims about the FAQ schema *)

\* a fragment as its tags and the characters between them: a tag runs from
\* a '<' to the next '>'
RECURSIVE Lexed(_)
Lexed(s) ==
    IF s = <<>> THEN <<>>
    ELSE LET ends == {k \in 2..Len(s) : s[k] = ">"}
             end == CHOOSE k \in ends : \A m \in ends : k <= m
         IN  IF s[1] = "<" /\ ends # {}
             THEN <<SubSeq(s, 1, end)>> \o Lexed(SubSeq(s, end + 1, Len(s)))
             ELSE <<(<<s[1]>>)>> \o Lexed(Tail(s))

IsTag(token) == Len(token) > 1
\* the opening tag of an element of this name, with or without attributes,
\* and its closing tag
IsOpening(token, name) ==
    /\ Len(token) >= Len(name) + 2
    /\ Lower(SubSeq(token, 2, Len(name) + 1)) = name
    /\ token[Len(name) + 2] \in {">", " "}
IsClosing(token, name) == Lower(token) = <<"<", "/">> \o name \o <<">">>
IsBlank(token) == Len(token) = 1 /\ token[1] \in SpaceChars

\* what stands inside the first element of this name of a lexed fragment
Inside(tokens, name) ==
    LET opens == {i \in 1..Len(tokens) : IsOpening(tokens[i], name)}
        open == CHOOSE i \in opens : \A k \in opens : i <= k
        closes == {j \in 1..Len(tokens) : j > open /\ IsClosing(tokens[j], name)}
        close == CHOOSE j \in closes : \A k \in closes : j <= k
    IN  IF opens = {} THEN [found |-> FALSE, tokens |-> <<>>]
        ELSE IF closes = {} THEN [found |-> FALSE, tokens |-> <<>>]
        ELSE [found |-> TRUE, tokens |-> SubSeq(tokens, open + 1, close - 1)]

\* without the blanks at its ends
RECURSIVE Unpadded(_)
Unpadded(tokens) ==
    IF tokens # <<>> /\ IsBlank(Head(tokens)) THEN Unpadded(Tail(tokens))
    ELSE IF tokens # <<>> /\ IsBlank(tokens[Len(tokens)])
    THEN Unpadded(SubSeq(tokens, 1, Len(tokens) - 1))
    ELSE tokens

\* the question and the answer of a fragment: what stands inside its <h2>
\* element, and what stands inside its <p> element without the tags
QuestionOf(fragment) == Flatten(Unpadded(Inside(Lexed(fragment.s), <<"h", "2">>).tokens))
AnswerOf(fragment) ==
    Flatten(SelectSeq(Unpadded(Inside(Lexed(fragment.s), <<"p">>).tokens),
                      LAMBDA token : ~IsTag(token)))

\* the fragment is a string with both elements, a question and an answer
Usable(fragment) ==
    /\ fragment.isStr
    /\ Inside(Lexed(fragment.s), <<"h", "2">>).found
    /\ Inside(Lexed(fragment.s), <<"p">>).found
    /\ QuestionOf(fragment) # <<>>
    /\ AnswerOf(fragment) # <<>>

\* C24: for every list of fragments generate_faq_schema returns the empty
\* structure when no fragment is usable (or the input is empty or no list),
\* and otherwise the schema with one question/answer pair for each usable
\* fragment, in list order, and none for the other fragments.
C24_OnePairForEachUsableFragment ==
    extracted_schema.done =>
        LET usable == IF given_fragments.isList
                      THEN SelectSeq(given_fragments.items, Usable) ELSE <<>>
        IN  extracted_schema.mainEntity =
                [i \in 1..Len(usable) |->
                    Question(QuestionOf(usable[i]), AnswerOf(usable[i]))]

\* the example of the specification: the one pair of the first fragment
C24_Witness ==
    /\ extracted_schema.done
    /\ given_fragments =
          Fragments(<<StrVal(SpecExampleFaq), StrVal(SpecExampleNoAnswer)>>)
    /\ extracted_schema.mainEntity =
          <<Question(<<"Q", "1">>, <<"A", "1">>)>>

\* two usable fragments, in list order
C24_WitnessInOrder ==
    /\ extracted_schema.done
    /\ given_fragments =
          Fragments(<<StrVal(FaqWithSpaces), StrVal(FaqWithAttributes)>>)
    /\ extracted_schema.mainEntity =
          <<Question(<<"Q", " ", "4">>, <<"A", " ", "4">>),
            Question(<<"Q", "3">>, <<"A", " ", "3">>)>>

----------------------------------------------------------------------------
(* Claims about the order values *)

\* the order of the dict at each position of a list equals the position
OrdersArePositions(h, l) == \A i \in DOMAIN l : h[l[i]].order = i - 1

\* C25: after reorder(newIdOrder), for any newIdOrder, the order of each
\* record of the resulting collection is its position in that collection.
C25_ReorderOrderIsPosition ==
    [][\A new_order \in ReorderInputs :
          (~current_data.isNone /\ reorder_keywords(new_order)) =>
              OrdersArePositions(heap', After)]_vars

\* C25 for a newIdOrder that names ids of the collection alone, each once
C25_OrderIsPositionWhenIdsKnownOnce ==
    [][\A new_order \in ReorderInputs :
          (/\ ~current_data.isNone
           /\ Distinct(new_order)
           /\ Range(new_order) \subseteq {heap[r].id : r \in Range(Before)}
           /\ reorder_keywords(new_order)) =>
              OrdersArePositions(heap', After)]_vars

\* C25 for a newIdOrder without a repeated id, so with absent ids alone
C25_OrderIsPositionWithoutRepeats ==
    [][\A new_order \in ReorderInputs :
          (/\ ~current_data.isNone
           /\ Distinct(new_order)
           /\ reorder_keywords(new_order)) =>
              OrdersArePositions(heap', After)]_vars

----------------------------------------------------------------------------
(* Claims about requests that run side by side *)

\* the ids a request leaves of a collection with these ids
IdsLeft(ids, request) ==
    IF request.kind = "remove"
    THEN SelectSeq(ids, LAMBDA id : id # request.keyword_id)
    ELSE SelectSeq(request.new_order, LAMBDA id : id \in Range(ids))

\* C26: nothing locks current_data: a request assigns what it computed from
\* the list it read, whatever has been assigned since, so that two requests
\* that run interleaved can end in a state that neither serial order of the
\* two gives (the witnesses).
C26_AssignsFromEarlierRead ==
    [][\A k \in 1..MaxInFlight :
          AssignCollection(k) =>
              IdsOf(heap', After) =
                  IdsLeft(IdsOf(heap, in_flight[k].seen), in_flight[k].request)]_vars

\* both requests have answered and the collection is not what the two give
\* one after the other, in either sequence, from the collection they read
NeitherSerialOrder ==
    /\ Len(in_flight) = 2
    /\ \A k \in 1..2 : in_flight[k].pc = "done"
    /\ in_flight[1].seen = in_flight[2].seen
    /\ ~current_data.isNone
    /\ LET ids == IdsOf(heap, in_flight[1].seen)
           r1 == in_flight[1].request
           r2 == in_flight[2].request
       IN  /\ IdsOf(heap, current_data.list) # IdsLeft(IdsLeft(ids, r1), r2)
           /\ IdsOf(heap, current_data.list) # IdsLeft(IdsLeft(ids, r2), r1)

\* two removes of different ids: the record one of them removed is there
C26_Witness ==
    /\ NeitherSerialOrder
    /\ in_flight[1].request = Removal(0)
    /\ in_flight[2].request = Removal(1)
    /\ IdsOf(heap, in_flight[1].seen) = <<0, 1>>
    /\ IdsOf(heap, current_data.list) = <<0>>

\* a remove and a reorder: the record the remove removed is there
C26_WitnessRemoveAndReorder ==
    /\ NeitherSerialOrder
    /\ in_flight[1].request = Removal(0)
    /\ in_flight[2].request = Reordering(<<1, 0>>)
    /\ IdsOf(heap, current_data.list) = <<1, 0>>

----------------------------------------------------------------------------
(* Claims about the orders of the current collection *)

\* C27: in every state reached from an ingested collection by tagUpdate,
\* remove, reorder and filter requests, the orders of the records of the
\* current collection are pairwise distinct and are 0..N-1 by list position.
C27_OrdersContiguous ==
    ~current_data.isNone =>
        /\ OrdersArePositions(heap, current_data.list)
        /\ \A i, j \in DOMAIN current_data.list :
              i # j => heap[current_data.list[i]].order
                       # heap[current_data.list[j]].order

----------------------------------------------------------------------------
(* Claims about what download and generate leave alone *)

\* there is a collection after the step exactly if there was one before,
\* with the same dicts at the same positions and the same values in them
SameCollection ==
    /\ current_data'.isNone = current_data.isNone
    /\ current_data'.list = current_data.list
    /\ Deref(heap', current_data'.list) = Deref(heap, current_data.list)

\* C29: a download and a generate request, successful or failed, leave the
\* current collection as it was: the same records in the same sequence with
\* the same values: a step that does not leave it so is no step of
\* download_json and none of generate_content.
C29_CollectionUnchanged ==
    [][\/ SameCollection
       \/ /\ \A req \in DownloadInputs : ~download_json(req)
          /\ \A c \in GenerateCases :
                ~generate_content(c.req, c.setup, c.svc1, c.svc2, c.disk)]_vars

\* a download has served the list of its body, and the collection is still
\* another one
C29_Witness ==
    /\ response.message = "file"
    /\ written # <<>>
    /\ written[1].body = BuildBody(RequestData)
    /\ ~current_data.isNone
    /\ current_data.list # <<>>
    /\ Deref(heap, current_data.list) # RequestData

\* a generate request has written a document for the list of its body, and
\* the collection is still another one
C29_WitnessGenerate ==
    /\ response.message = "Content generated successfully"
    /\ written # <<>>
    /\ prompt = <<BuildBody(RequestData)>>
    /\ ~current_data.isNone
    /\ current_data.list # <<>>
    /\ Deref(heap, current_data.list) # RequestData

----------------------------------------------------------------------------
(* Claims about validate_handle on its own results *)

\* C30: when validate_handle accepts a raw handle and returns h, it accepts
\* h as well and returns h for it, and h is a non-empty sequence of groups
\* of [a-z0-9] separated by single hyphens; so the second validation of the
\* written handle (lines 988-996) gives the handle again.
C30_HandleIdempotent ==
    LET result == validate_handle(RawHandle)
    IN  /\ result.ok =>
              /\ validate_handle(StrVal(result.value)) = Valid(result.value)
              /\ WellFormedHandle(result.value)
        /\ (Served /\ written # <<>>) =>
              /\ written[1].identifier.handle = StrVal(result.value)
              /\ validate_handle(written[1].identifier.handle)
                    = Valid(result.value)

\* a handle that is not in its normal form was accepted, and the handle
\* written for it is accepted as it stands
C30_Witness ==
    /\ Served
    /\ written # <<>>
    /\ RawHandle = StrVal(<<"A", "-", "1", " ">>)
    /\ written[1].identifier.handle = StrVal(<<"a", "-", "1">>)
    /\ validate_handle(written[1].identifier.handle).ok

=============================================================================
